---- MODULE Spec2Model ----
(***************************************************************************)
(* Tile cache, tile loader pool and tile manager of the WSI viewer         *)
(* (src/core/wsi_tile_manager.py).                                         *)
(*                                                                         *)
(* A tile key is the tuple <<tile_x, tile_y, level>>.  The cache is the    *)
(* OrderedDict of TileCache, kept as the sequence of its entries, oldest   *)
(* first.  Two specifications are given over the same variables:           *)
(*   SpecCache  the TileCache API under arbitrary put/get/clear calls;     *)
(*   Spec       the WSITileManager with its TileLoader workers, the main   *)
(*              (GUI) thread running the manager's handlers one at a time  *)
(*              and the queued tileLoaded signals in between.              *)
(***************************************************************************)
EXTENDS Integers, Sequences, FiniteSets, TLC

\* ------------------------------------------------------------------ bounds
\* Per-level quotas of TileCache.max_tiles_per_level, scaled down from
\* 500 / 800 / 1200 / 2000.
Quota0 == 2
Quota1 == 2
Quota2 == 2
Quota3 == 1
\* Number of TileLoader workers (num_workers, 4 in the viewer), scaled down.
NumWorkers == 2
\* Evictions a behaviour of SpecCache may perform (caps total_evictions).
MaxEvictions == 2
\* Native levels of the slides of SpecStages (slide.level_count from 1 up).
MaxLevels == 9
\* Tasks the workers may pop in a behaviour of Spec (caps decodes).
MaxDecodes == 2
\* Tasks each worker may pop in a behaviour of SpecShow.
MaxPopsEach == 1

\* ------------------------------------------------------- program constants
buffer_tiles == 4
tile_size == 512
\* level_downsamples of the opened slide (4 native levels).
level_downsamples == <<1, 4, 16, 64>>
level_count == Len(level_downsamples)

None == "None"
\* task = None in TileLoader.run: no task popped.
NoTask == <<>>
\* No on_tile_loaded call under way.
NoCompletion == [pixmap |-> None, key |-> NoTask]
\* No get_stage_level call made yet.
NoLevel == -1
Pixmaps == {"p1", "p2"}

\* ------------------------------------------------------------- TileCache
max_tiles_per_level == (0 :> Quota0) @@ (1 :> Quota1) @@ (2 :> Quota2) @@ (3 :> Quota3)

\* dict.get(key, default)
DictGet(d, k, default) == IF k \in DOMAIN d THEN d[k] ELSE default

\* d[k] = v on a dict
DictSet(d, k, v) == [x \in DOMAIN d \cup {k} |-> IF x = k THEN v ELSE d[x]]

KeyLevel(key) == key[3]

\* key in self.cache
InCache(cache_, key) == \E i \in 1..Len(cache_) : cache_[i].key = key

CacheIndex(cache_, key) == CHOOSE i \in 1..Len(cache_) : cache_[i].key = key

\* del self.cache[key] at position i
RemoveAt(s, i) == SubSeq(s, 1, i - 1) \o SubSeq(s, i + 1, Len(s))

\* OrderedDict.move_to_end(key)
move_to_end(cache_, key) ==
    LET i == CacheIndex(cache_, key)
    IN  Append(RemoveAt(cache_, i), cache_[i])

\* self.max_tiles_per_level.get(level, self.max_tiles_per_level[3])
MaxForLevel(level) == DictGet(max_tiles_per_level, level, max_tiles_per_level[3])

\* A TileCache object: [cache, level_counts, total_evictions].
NewTileCache ==
    [cache |-> <<>>,
     level_counts |-> (0 :> 0) @@ (1 :> 0) @@ (2 :> 0) @@ (3 :> 0),
     total_evictions |-> 0]

\* A slip: a hit does not refresh the recency of the key.
TileCache_get_no_touch(tc, key) ==
    IF InCache(tc.cache, key)
    THEN [tc |-> tc, ret |-> tc.cache[CacheIndex(tc.cache, key)].pixmap]
    ELSE [tc |-> tc, ret |-> None]

\* TileCache.get: [tc |-> the cache afterwards, ret |-> the pixmap or None]
TileCache_get(tc, key) ==
    IF InCache(tc.cache, key)
    THEN [tc |-> [tc EXCEPT !.cache = move_to_end(tc.cache, key)],
          ret |-> tc.cache[CacheIndex(tc.cache, key)].pixmap]
    ELSE [tc |-> tc, ret |-> None]

\* A slip: the level test of the scan is left out, so the first entry of the
\* dict is evicted whatever its level.
evict_first_of_any_level(tc, target_level) ==
    IF tc.cache = <<>> THEN tc
    ELSE [tc EXCEPT !.cache = Tail(tc.cache),
                    !.level_counts[KeyLevel(tc.cache[1].key)] = @ - 1,
                    !.total_evictions = @ + 1]

\* A slip: the eviction leaves the counter of the level as it was.
evict_keeps_count(tc, target_level) ==
    LET hits == {i \in 1..Len(tc.cache) : KeyLevel(tc.cache[i].key) = target_level}
    IN  IF hits = {} THEN tc
        ELSE LET i == CHOOSE j \in hits : \A h \in hits : j <= h
             IN  [tc EXCEPT !.cache = RemoveAt(tc.cache, i),
                            !.total_evictions = @ + 1]

\* TileCache._evict_oldest_tile_for_level
evict_oldest_tile_for_level(tc, target_level) ==
    LET hits == {i \in 1..Len(tc.cache) : KeyLevel(tc.cache[i].key) = target_level}
    IN  IF hits = {} THEN tc
        ELSE LET i == CHOOSE j \in hits : \A h \in hits : j <= h
             IN  [tc EXCEPT !.cache = RemoveAt(tc.cache, i),
                            !.level_counts[target_level] = @ - 1,
                            !.total_evictions = @ + 1]

\* A slip: the quota test is left out, the tile is always added.
TileCache_put_unbounded(tc, key, pixmap) ==
    IF InCache(tc.cache, key)
    THEN [tc EXCEPT !.cache = move_to_end(tc.cache, key)]
    ELSE [tc EXCEPT !.cache = Append(tc.cache, [key |-> key, pixmap |-> pixmap]),
                    !.level_counts = DictSet(tc.level_counts, KeyLevel(key),
                                             DictGet(tc.level_counts, KeyLevel(key), 0) + 1)]

\* A slip: a put on a cached key returns without refreshing its recency.
TileCache_put_no_refresh(tc, key, pixmap) ==
    IF InCache(tc.cache, key)
    THEN tc
    ELSE LET level == KeyLevel(key)
             t1 == IF DictGet(tc.level_counts, level, 0) >= MaxForLevel(level)
                   THEN evict_oldest_tile_for_level(tc, level) ELSE tc
         IN  [t1 EXCEPT !.cache = Append(t1.cache, [key |-> key, pixmap |-> pixmap]),
                        !.level_counts = DictSet(t1.level_counts, level,
                                                 DictGet(t1.level_counts, level, 0) + 1)]

\* A slip: a put on a cached key stores the new pixmap.
TileCache_put_overwrite(tc, key, pixmap) ==
    IF InCache(tc.cache, key)
    THEN [tc EXCEPT !.cache = Append(RemoveAt(tc.cache, CacheIndex(tc.cache, key)),
                                     [key |-> key, pixmap |-> pixmap])]
    ELSE LET level == KeyLevel(key)
             t1 == IF DictGet(tc.level_counts, level, 0) >= MaxForLevel(level)
                   THEN evict_oldest_tile_for_level(tc, level) ELSE tc
         IN  [t1 EXCEPT !.cache = Append(t1.cache, [key |-> key, pixmap |-> pixmap]),
                        !.level_counts = DictSet(t1.level_counts, level,
                                                 DictGet(t1.level_counts, level, 0) + 1)]

\* TileCache.put
TileCache_put(tc, key, pixmap) ==
    IF InCache(tc.cache, key)
    THEN [tc EXCEPT !.cache = move_to_end(tc.cache, key)]
    ELSE LET level == KeyLevel(key)
             max_for_level == MaxForLevel(level)
             t1 == IF DictGet(tc.level_counts, level, 0) >= max_for_level
                   THEN evict_oldest_tile_for_level(tc, level) ELSE tc
         IN  [t1 EXCEPT !.cache = Append(t1.cache, [key |-> key, pixmap |-> pixmap]),
                        !.level_counts = DictSet(t1.level_counts, level,
                                                 DictGet(t1.level_counts, level, 0) + 1)]

\* A slip: clear empties the dict and leaves the per-level counters.
TileCache_clear_keeps_counts(tc) == [tc EXCEPT !.cache = <<>>]

\* TileCache.clear (and clear_all)
TileCache_clear(tc) ==
    [tc EXCEPT !.cache = <<>>,
               !.level_counts = (0 :> 0) @@ (1 :> 0) @@ (2 :> 0) @@ (3 :> 0)]

\* TileCache.get_all_keys
TileCache_get_all_keys(tc) == [i \in 1..Len(tc.cache) |-> tc.cache[i].key]

\* ------------------------------------------------------------------ state
VARIABLES
    cache,              \* TileCache.cache: sequence of [key, pixmap], oldest first
    level_counts,       \* TileCache.level_counts
    total_evictions,    \* TileCache.total_evictions
    loading_tiles,      \* WSITileManager.loading_tiles
    current_worker_idx, \* WSITileManager.current_worker_idx
    slide,              \* WSITileManager.slide is not None
    tasks,              \* TileLoader.tasks of every worker
    running,            \* TileLoader.running of every worker
    wpc,                \* where every worker is in TileLoader.run
    wtask,              \* the task a worker has popped
    events,             \* tileLoaded signals queued for the main thread
    mainPc,             \* where the main thread is in a manager handler
    otl,                \* arguments of the on_tile_loaded call under way
    lru,                \* history: cached keys by last put or get, oldest first
    dispatchCount,      \* history: add_task calls made for a key
    delivered,          \* history: on_tile_loaded calls started
    decodes,            \* history: tasks popped by the workers
    dropped,            \* history: keys whose last decode failed
    tilesUpdated,       \* tilesUpdated.emit() calls made by the manager
    dispatchLog,        \* history: the add_task calls, [key, worker], in order
    total_levels,       \* slide.level_count
    level_stages,       \* WSITileManager.level_stages
    zoom_level,         \* argument of the last get_stage_level call
    stage_level,        \* what the last get_stage_level call returned
    cache_lock,         \* TileCache.lock: the thread that holds it
    cpc,                \* where every thread is in a TileCache method
    cop,                \* the TileCache call of every thread
    tasks_lock,         \* TileLoader.lock of every worker: who holds it
    adding,             \* the add_task call under way
    tile_manager,       \* the widget's tile_manager is not None
    tile_items,         \* the widget's tile_items: keys of the displayed tiles
    current_level,      \* the widget's current_level
    view_zoom,          \* the widget's zoom_level, in thousandths
    viewport,           \* the viewport in scene (level-0) coordinates
    load_wsi_ret,       \* what the last load_wsi call returned
    renderer,           \* the widget class: WSIViewWidget or WSIViewer
    opening,            \* outcome of the slide open of the load_wsi under way
    removed,            \* history: the tiles the last removal pass took out
    flushed,            \* history: the tiles the last level change took out
    scene               \* the tile items in the widget's scene: how many per key

cacheVars == <<cache, level_counts, total_evictions>>
managerVars == <<loading_tiles, current_worker_idx, slide, tasks, running, wpc,
                 wtask, events, mainPc, otl, tilesUpdated>>
historyVars == <<lru, dispatchCount, delivered, decodes, dropped, dispatchLog>>
stageVars == <<total_levels, level_stages, zoom_level, stage_level>>
lockVars == <<cache_lock, cpc, cop, tasks_lock, adding>>
viewVars == <<tile_manager, tile_items, current_level, view_zoom, viewport, load_wsi_ret,
              renderer, opening, removed, flushed, scene>>
vars == <<cacheVars, managerVars, historyVars, stageVars, lockVars, viewVars>>

Workers == 0..(NumWorkers - 1)

\* Threads that call the cache: the loader workers and the render (main) thread.
RenderThread == NumWorkers
CacheThreads == Workers \cup {RenderThread}
\* threading.Lock() not held.
NoHolder == -1
\* No TileCache call, no add_task call under way.
NoCall == [op |-> "none", key |-> <<>>, pixmap |-> "None"]
NoAdd == [worker |-> NoHolder, task |-> <<>>]
\* The viewport of the widget before a slide is shown.
NoView == [left |-> 0, top |-> 0, right |-> 0, bottom |-> 0]

\* The TileCache object of the current state, and its replacement.
TC == [cache |-> cache, level_counts |-> level_counts, total_evictions |-> total_evictions]

SetTC(tc) ==
    /\ cache' = tc.cache
    /\ level_counts' = tc.level_counts
    /\ total_evictions' = tc.total_evictions

KeysOf(cache_) == {cache_[i].key : i \in 1..Len(cache_)}

\* The pixmap stored for a key, None when the key is not cached.
StoredPixmap(cache_, key) ==
    IF InCache(cache_, key) THEN cache_[CacheIndex(cache_, key)].pixmap ELSE None

\* Cached entries of one level.
LevelKeys(cache_, level) == {k \in KeysOf(cache_) : KeyLevel(k) = level}

\* History of recency: drop what left the cache, move the touched key to the end.
Touched(lru_, cache_, key) ==
    LET kept == SelectSeq(lru_, LAMBDA k : k \in KeysOf(cache_) /\ k # key)
    IN  IF key \in KeysOf(cache_) THEN Append(kept, key) ELSE kept

\* round(num / den) of Python for integers num >= 0 and den > 0: the nearest
\* integer, a tie going to the even one.
PyRound(num, den) ==
    LET q == num \div den
        r == num % den
    IN  IF 2 * r < den THEN q
        ELSE IF 2 * r > den THEN q + 1
        ELSE IF q % 2 = 0 THEN q ELSE q + 1

Min(a, b) == IF a <= b THEN a ELSE b

\* A slip: int() of the steps instead of int(round()).
setup_level_stages_truncating(n) ==
    IF n = 1 THEN <<0, 0, 0, 0>>
    ELSE IF n = 2 THEN <<0, 0, 1, 1>>
    ELSE IF n = 3 THEN <<0, 1, 2, 2>>
    ELSE IF n >= 4
    THEN <<0, (n - 1) \div 3, (2 * (n - 1)) \div 3, Min(n - 1, (3 * (n - 1)) \div 3)>>
    ELSE <<0, 0, 0, 0>>

\* A slip: the step is taken over total_levels instead of total_levels - 1 and
\* the last stage is not clamped.
setup_level_stages_no_clamp(n) ==
    IF n = 1 THEN <<0, 0, 0, 0>>
    ELSE IF n = 2 THEN <<0, 0, 1, 1>>
    ELSE IF n = 3 THEN <<0, 1, 2, 2>>
    ELSE IF n >= 4
    THEN <<0, PyRound(n, 3), PyRound(2 * n, 3), PyRound(3 * n, 3)>>
    ELSE <<0, 0, 0, 0>>

\* WSITileManager._setup_level_stages for a slide of n levels: the level_stages
\* it leaves.  step is (n - 1) / 3.0, so step * m is m * (n - 1) / 3.
setup_level_stages(n) ==
    IF n = 1 THEN <<0, 0, 0, 0>>
    ELSE IF n = 2 THEN <<0, 0, 1, 1>>
    ELSE IF n = 3 THEN <<0, 1, 2, 2>>
    ELSE IF n >= 4
    THEN <<0, PyRound(n - 1, 3), PyRound(2 * (n - 1), 3),
           Min(n - 1, PyRound(3 * (n - 1), 3))>>
    ELSE <<0, 0, 0, 0>>

\* The state after WSITileManager.__init__ on a slide of n native levels.
InitFor(n) ==
    /\ cache = NewTileCache.cache
    /\ level_counts = NewTileCache.level_counts
    /\ total_evictions = NewTileCache.total_evictions
    /\ loading_tiles = {}
    /\ current_worker_idx = 0
    /\ slide = TRUE
    /\ tasks = [w \in Workers |-> <<>>]
    /\ running = [w \in Workers |-> TRUE]
    /\ wpc = [w \in Workers |-> "while"]
    /\ wtask = [w \in Workers |-> NoTask]
    /\ events = <<>>
    /\ mainPc = "idle"
    /\ otl = NoCompletion
    /\ lru = <<>>
    /\ dispatchCount = <<>>
    /\ delivered = 0
    /\ decodes = 0
    /\ dropped = {}
    /\ tilesUpdated = 0
    /\ dispatchLog = <<>>
    /\ total_levels = n
    /\ level_stages = setup_level_stages(n)
    /\ zoom_level = NoLevel
    /\ stage_level = NoLevel
    /\ cache_lock = NoHolder
    /\ cpc = [t \in CacheThreads |-> "out"]
    /\ cop = [t \in CacheThreads |-> [call |-> NoCall, before |-> NewTileCache,
                                      after |-> NewTileCache]]
    /\ tasks_lock = [w \in Workers |-> "free"]
    /\ adding = NoAdd
    /\ tile_manager = FALSE
    /\ tile_items = {}
    /\ current_level = -1
    /\ view_zoom = 1000
    /\ viewport = NoView
    /\ load_wsi_ret = "None"
    /\ renderer = "WSIViewWidget"
    /\ opening = "no"
    /\ removed = {}
    /\ flushed = {}
    /\ scene = <<>>

Init == InitFor(level_count)

\* ------------------------------------------------- SpecCache: the cache API
\* Levels and keys of the calls: a level with its own quota and a level without.
CacheLevels == {0, 4}
\* One key more than the quota at each level.
CacheKeys == UNION {{<<tx, 0, level>> : tx \in 0..MaxForLevel(level)} : level \in CacheLevels}
\* The put calls: every key with the pixmap p1, the first key of each level
\* with a second pixmap too.
PutCalls == {c \in CacheKeys \X Pixmaps : c[2] = "p1" \/ c[1][1] = 0}

\* cache.put(key, pixmap)
CachePut(key, pixmap) ==
    /\ \/ InCache(cache, key)
       \/ DictGet(level_counts, KeyLevel(key), 0) < MaxForLevel(KeyLevel(key))
       \/ total_evictions < MaxEvictions
    /\ SetTC(TileCache_put(TC, key, pixmap))
    /\ lru' = Touched(lru, cache', key)
    /\ UNCHANGED <<managerVars, dispatchCount, delivered, decodes, dropped, dispatchLog, stageVars, lockVars, viewVars>>

\* cache.get(key)
CacheGet(key) ==
    /\ SetTC(TileCache_get(TC, key).tc)
    /\ lru' = Touched(lru, cache', key)
    /\ UNCHANGED <<managerVars, dispatchCount, delivered, decodes, dropped, dispatchLog, stageVars, lockVars, viewVars>>

\* cache.clear()
CacheClear ==
    /\ SetTC(TileCache_clear(TC))
    /\ lru' = <<>>
    /\ UNCHANGED <<managerVars, dispatchCount, delivered, decodes, dropped, dispatchLog, stageVars, lockVars, viewVars>>

NextCache ==
    \/ \E c \in PutCalls : CachePut(c[1], c[2])
    \/ \E key \in CacheKeys : CacheGet(key)
    \/ CacheClear

SpecCache == Init /\ [][NextCache]_vars

\* ------------------------------------------------------ Spec: the manager
\* int(a / b) of Python for integers a and b > 0: the quotient cut towards zero.
PyInt(a, b) == IF a >= 0 THEN a \div b ELSE -((-a) \div b)

Max(a, b) == IF a >= b THEN a ELSE b

\* WSITileManager.get_level_downsample
get_level_downsample(level) ==
    IF slide /\ 0 <= level /\ level < level_count THEN level_downsamples[level + 1] ELSE 1

\* A slip: the range is the visible one, without the buffer margin.
TileRange_no_margin(view_rect, level) ==
    LET downsample == get_level_downsample(level)
    IN  [start_tile_x |-> Max(0, PyInt(view_rect.left, downsample * tile_size)),
         start_tile_y |-> Max(0, PyInt(view_rect.top, downsample * tile_size)),
         end_tile_x |-> PyInt(view_rect.right, downsample * tile_size) + 1,
         end_tile_y |-> PyInt(view_rect.bottom, downsample * tile_size) + 1]

\* A slip: the start of the range is not clamped at 0.
TileRange_no_clamp(view_rect, level) ==
    LET downsample == get_level_downsample(level)
        tile_size_at_level == tile_size
    IN  [start_tile_x |-> PyInt(view_rect.left, downsample * tile_size_at_level) - buffer_tiles,
         start_tile_y |-> PyInt(view_rect.top, downsample * tile_size_at_level) - buffer_tiles,
         end_tile_x |-> PyInt(view_rect.right, downsample * tile_size_at_level) + 1 + buffer_tiles,
         end_tile_y |-> PyInt(view_rect.bottom, downsample * tile_size_at_level) + 1 + buffer_tiles]

\* The tile range of load_tiles_for_view: start inclusive, end exclusive.
TileRange(view_rect, level) ==
    LET downsample == get_level_downsample(level)
        tile_size_at_level == tile_size
    IN  [start_tile_x |-> Max(0, PyInt(view_rect.left, downsample * tile_size_at_level) - buffer_tiles),
         start_tile_y |-> Max(0, PyInt(view_rect.top, downsample * tile_size_at_level) - buffer_tiles),
         end_tile_x |-> PyInt(view_rect.right, downsample * tile_size_at_level) + 1 + buffer_tiles,
         end_tile_y |-> PyInt(view_rect.bottom, downsample * tile_size_at_level) + 1 + buffer_tiles]

\* The keys of the two nested range() loops, in the order they are visited.
RangeKeys(rg, level) ==
    LET w == Max(0, rg.end_tile_x - rg.start_tile_x)
        h == Max(0, rg.end_tile_y - rg.start_tile_y)
    IN  [i \in 1..(w * h) |->
            <<rg.start_tile_x + ((i - 1) % w), rg.start_tile_y + ((i - 1) \div w), level>>]

Footprint(view_rect, level) ==
    LET ks == RangeKeys(TileRange(view_rect, level), level)
    IN  {ks[i] : i \in 1..Len(ks)}

\* A slip: the membership test is left out, the task is always appended.
add_task_always_appends(tasks_, task) == Append(tasks_, task)

\* TileLoader.add_task on the task list of one worker
add_task(tasks_, task) == IF \E i \in 1..Len(tasks_) : tasks_[i] = task THEN tasks_ ELSE Append(tasks_, task)

\* A slip: the in-flight test is left out of the loop body.
LoadTile_no_inflight_test(st, cache_key) ==
    LET r == TileCache_get(st.tc, cache_key)
    IN  IF r.ret # None
        THEN [st EXCEPT !.tc = r.tc, !.lru = Touched(st.lru, r.tc.cache, cache_key)]
        ELSE [st EXCEPT !.loading_tiles = @ \cup {cache_key},
                        !.tasks[st.current_worker_idx] = add_task(@, cache_key),
                        !.current_worker_idx = (@ + 1) % NumWorkers,
                        !.dispatchCount = DictSet(@, cache_key, DictGet(@, cache_key, 0) + 1),
                        !.dropped = @ \ {cache_key},
                        !.dispatchLog = Append(@, [key |-> cache_key,
                                                   worker |-> st.current_worker_idx])]

\* A slip: the round-robin index is not advanced after a dispatch.
LoadTile_stuck_index(st, cache_key) ==
    LET r == TileCache_get(st.tc, cache_key)
    IN  IF r.ret # None
        THEN [st EXCEPT !.tc = r.tc, !.lru = Touched(st.lru, r.tc.cache, cache_key)]
        ELSE IF cache_key \in st.loading_tiles
        THEN st
        ELSE [st EXCEPT !.loading_tiles = @ \cup {cache_key},
                        !.tasks[st.current_worker_idx] = add_task(@, cache_key),
                        !.dispatchCount = DictSet(@, cache_key, DictGet(@, cache_key, 0) + 1),
                        !.dropped = @ \ {cache_key},
                        !.dispatchLog = Append(@, [key |-> cache_key,
                                                   worker |-> st.current_worker_idx])]

\* A slip: a dispatched key is not marked in-flight.
LoadTile_no_mark(st, cache_key) ==
    LET r == TileCache_get(st.tc, cache_key)
    IN  IF r.ret # None
        THEN [st EXCEPT !.tc = r.tc, !.lru = Touched(st.lru, r.tc.cache, cache_key)]
        ELSE IF cache_key \in st.loading_tiles
        THEN st
        ELSE [st EXCEPT !.tasks[st.current_worker_idx] = add_task(@, cache_key),
                        !.current_worker_idx = (@ + 1) % NumWorkers,
                        !.dispatchCount = DictSet(@, cache_key, DictGet(@, cache_key, 0) + 1),
                        !.dropped = @ \ {cache_key},
                        !.dispatchLog = Append(@, [key |-> cache_key,
                                                   worker |-> st.current_worker_idx])]

\* The body of the loop of load_tiles_for_view for one key; st carries the
\* cache, the in-flight set, the workers' task lists and the round-robin index.
LoadTile(st, cache_key) ==
    LET r == TileCache_get(st.tc, cache_key)
    IN  IF r.ret # None
        THEN [st EXCEPT !.tc = r.tc, !.lru = Touched(st.lru, r.tc.cache, cache_key)]
        ELSE IF cache_key \in st.loading_tiles
        THEN st
        ELSE [st EXCEPT !.loading_tiles = @ \cup {cache_key},
                        !.tasks[st.current_worker_idx] = add_task(@, cache_key),
                        !.current_worker_idx = (@ + 1) % NumWorkers,
                        !.dispatchCount = DictSet(@, cache_key, DictGet(@, cache_key, 0) + 1),
                        !.dropped = @ \ {cache_key},
                        !.dispatchLog = Append(@, [key |-> cache_key,
                                                   worker |-> st.current_worker_idx])]

RECURSIVE LoadLoop(_, _, _)
LoadLoop(keys, i, st) ==
    IF i > Len(keys) \/ st.current_worker_idx \notin Workers
    THEN st
    ELSE LoadLoop(keys, i + 1, LoadTile(st, keys[i]))

\* Viewport rectangles (level-0 pixels) and display levels of the calls: two
\* views with overlapping footprints, one reaching into the negative margin.
WideView == [left |-> 0, top |-> 0, right |-> 1000, bottom |-> 400]
NarrowView == [left |-> -300, top |-> -300, right |-> 200, bottom |-> 200]
ViewRects == {WideView, NarrowView}
ViewLevels == {0}
ViewRequests == ViewRects \X ViewLevels

\* Keys the renderer asks get_tile for: the first tiles of the top row.
GetTileKeys == {<<tx, 0, level>> : tx \in 0..1, level \in ViewLevels}

\* The loops of load_tiles_for_view run from the current state: the cache, the
\* in-flight set, the task lists and the round-robin index they leave.
LoadResult(view_rect, level) ==
    LoadLoop(RangeKeys(TileRange(view_rect, level), level), 1,
             [tc |-> TC, lru |-> lru, loading_tiles |-> loading_tiles,
              tasks |-> tasks, current_worker_idx |-> current_worker_idx,
              dispatchCount |-> dispatchCount, dropped |-> dropped,
              dispatchLog |-> dispatchLog])

\* WSITileManager.load_tiles_for_view
load_tiles_for_view(view_rect, level) ==
    /\ mainPc = "idle"
    /\ IF ~slide
       THEN UNCHANGED <<cacheVars, loading_tiles, current_worker_idx, tasks, lru,
                        dispatchCount, dropped, dispatchLog>>
       ELSE \E st \in {LoadResult(view_rect, level)} :
                /\ SetTC(st.tc)
                /\ lru' = st.lru
                /\ loading_tiles' = st.loading_tiles
                /\ tasks' = st.tasks
                /\ current_worker_idx' = st.current_worker_idx
                /\ dispatchCount' = st.dispatchCount
                /\ dropped' = st.dropped
                /\ dispatchLog' = st.dispatchLog
    /\ UNCHANGED <<slide, running, wpc, wtask, events, mainPc, otl, delivered, decodes, tilesUpdated, stageVars, lockVars, viewVars>>

\* A slip: the lookup takes the entry out of the cache (dict.pop).
get_tile_pop(tile_x, tile_y, level) ==
    LET cache_key == <<tile_x, tile_y, level>>
    IN  /\ mainPc = "idle"
        /\ IF InCache(cache, cache_key)
           THEN /\ cache' = RemoveAt(cache, CacheIndex(cache, cache_key))
                /\ level_counts' = [level_counts EXCEPT ![level] = @ - 1]
           ELSE UNCHANGED <<cache, level_counts>>
        /\ lru' = Touched(lru, cache', cache_key)
        /\ UNCHANGED <<total_evictions, managerVars, dispatchCount, delivered, decodes,
                       dropped, dispatchLog, stageVars, lockVars, viewVars>>

\* WSITileManager.get_tile
get_tile(tile_x, tile_y, level) ==
    LET cache_key == <<tile_x, tile_y, level>>
        r == TileCache_get(TC, cache_key)
    IN  /\ mainPc = "idle"
        /\ SetTC(r.tc)
        /\ lru' = Touched(lru, cache', cache_key)
        /\ UNCHANGED <<managerVars, dispatchCount, delivered, decodes, dropped, dispatchLog, stageVars, lockVars, viewVars>>

\* A slip: the in-flight mark of the delivered key is not removed.
on_tile_loaded_no_discard ==
    /\ mainPc = "idle"
    /\ events # <<>>
    /\ otl' = Head(events)
    /\ events' = Tail(events)
    /\ mainPc' = "put"
    /\ delivered' = delivered + 1
    /\ UNCHANGED <<cacheVars, loading_tiles, current_worker_idx, slide, tasks, running,
                   wpc, wtask, lru, dispatchCount, decodes, dropped, tilesUpdated, dispatchLog, stageVars, lockVars, viewVars>>

\* WSITileManager.on_tile_loaded, up to the release of loading_lock: the
\* queued tileLoaded signal is taken and the in-flight mark removed.
on_tile_loaded_discard ==
    /\ mainPc = "idle"
    /\ events # <<>>
    /\ otl' = Head(events)
    /\ events' = Tail(events)
    /\ loading_tiles' = loading_tiles \ {Head(events).key}
    /\ mainPc' = "put"
    /\ delivered' = delivered + 1
    /\ UNCHANGED <<cacheVars, current_worker_idx, slide, tasks, running, wpc, wtask,
                   lru, dispatchCount, decodes, dropped, tilesUpdated, dispatchLog, stageVars, lockVars, viewVars>>

\* A slip: tilesUpdated is emitted only when the put evicted a tile.
on_tile_loaded_put_quiet ==
    /\ mainPc = "put"
    /\ SetTC(TileCache_put(TC, otl.key, otl.pixmap))
    /\ lru' = Touched(lru, cache', otl.key)
    /\ tilesUpdated' = IF total_evictions' > total_evictions THEN tilesUpdated + 1
                       ELSE tilesUpdated
    /\ mainPc' = "idle"
    /\ otl' = NoCompletion
    /\ UNCHANGED <<loading_tiles, current_worker_idx, slide, tasks, running, wpc, wtask,
                   events, dispatchCount, delivered, decodes, dropped, dispatchLog, stageVars, lockVars, viewVars>>

\* WSITileManager.on_tile_loaded, the rest: cache.put and tilesUpdated.emit.
on_tile_loaded_put ==
    /\ mainPc = "put"
    /\ SetTC(TileCache_put(TC, otl.key, otl.pixmap))
    /\ lru' = Touched(lru, cache', otl.key)
    /\ tilesUpdated' = tilesUpdated + 1
    /\ mainPc' = "idle"
    /\ otl' = NoCompletion
    /\ UNCHANGED <<loading_tiles, current_worker_idx, slide, tasks, running, wpc, wtask,
                   events, dispatchCount, delivered, decodes, dropped, dispatchLog, stageVars, lockVars, viewVars>>

\* WSITileManager.close, the stop() calls: TileLoader.stop on every worker.
close_stop ==
    /\ mainPc = "idle"
    /\ running' = [w \in Workers |-> FALSE]
    /\ mainPc' = "join"
    /\ UNCHANGED <<cacheVars, loading_tiles, current_worker_idx, slide, tasks, wpc, wtask,
                   events, otl, historyVars, tilesUpdated, stageVars, lockVars, viewVars>>

\* A slip: the in-flight marks are not cleared.
close_join_keeps_marks ==
    /\ mainPc = "join"
    /\ \A w \in Workers : wpc[w] = "exited"
    /\ SetTC(TileCache_clear(TC))
    /\ lru' = <<>>
    /\ UNCHANGED loading_tiles
    /\ slide' = FALSE
    /\ mainPc' = "idle"
    /\ UNCHANGED <<current_worker_idx, tasks, running, wpc, wtask, events, otl,
                   dispatchCount, delivered, decodes, dropped, tilesUpdated, dispatchLog, stageVars, lockVars, viewVars>>

\* WSITileManager.close, from the wait() calls on: every worker has left run.
close_join ==
    /\ mainPc = "join"
    /\ \A w \in Workers : wpc[w] = "exited"
    /\ SetTC(TileCache_clear(TC))
    /\ lru' = <<>>
    /\ loading_tiles' = {}
    /\ slide' = FALSE
    /\ mainPc' = "idle"
    /\ UNCHANGED <<current_worker_idx, tasks, running, wpc, wtask, events, otl,
                   dispatchCount, delivered, decodes, dropped, tilesUpdated, dispatchLog, stageVars, lockVars, viewVars>>

\* A slip: the loop is while True, the running flag is never tested.
run_while_ignores_stop(w) ==
    /\ wpc[w] = "while"
    /\ wpc' = [wpc EXCEPT ![w] = "lock"]
    /\ UNCHANGED <<cacheVars, loading_tiles, current_worker_idx, slide, tasks, running,
                   wtask, events, mainPc, otl, historyVars, tilesUpdated, stageVars, lockVars, viewVars>>

\* TileLoader.run: the test of the while loop.
run_while(w) ==
    /\ wpc[w] = "while"
    /\ wpc' = [wpc EXCEPT ![w] = IF running[w] THEN "lock" ELSE "exited"]
    /\ UNCHANGED <<cacheVars, loading_tiles, current_worker_idx, slide, tasks, running,
                   wtask, events, mainPc, otl, historyVars, tilesUpdated, stageVars, lockVars, viewVars>>

\* A slip: tasks.pop() instead of tasks.pop(0), the newest task is taken.
run_pop_newest(w) ==
    /\ wpc[w] = "lock"
    /\ IF tasks[w] # <<>> /\ decodes < MaxDecodes
       THEN /\ wtask' = [wtask EXCEPT ![w] = tasks[w][Len(tasks[w])]]
            /\ tasks' = [tasks EXCEPT ![w] = SubSeq(tasks[w], 1, Len(tasks[w]) - 1)]
            /\ wpc' = [wpc EXCEPT ![w] = "load"]
            /\ decodes' = decodes + 1
       ELSE /\ tasks[w] = <<>> \/ ~running[w]
            /\ wpc' = [wpc EXCEPT ![w] = IF running[w] THEN "lock" ELSE "exited"]
            /\ UNCHANGED <<wtask, tasks, decodes>>
    /\ UNCHANGED <<cacheVars, loading_tiles, current_worker_idx, slide, running, events,
                   mainPc, otl, lru, dispatchCount, delivered, dropped, tilesUpdated,
                   dispatchLog, stageVars, lockVars, viewVars>>

\* A slip: the wait has no timeout and stop() wakes nobody, so a worker that
\* waits on an empty list is never woken.
run_pop_waits_forever(w) ==
    /\ wpc[w] = "lock"
    /\ IF tasks[w] # <<>> /\ decodes < MaxDecodes
       THEN /\ wtask' = [wtask EXCEPT ![w] = Head(tasks[w])]
            /\ tasks' = [tasks EXCEPT ![w] = Tail(tasks[w])]
            /\ wpc' = [wpc EXCEPT ![w] = "load"]
            /\ decodes' = decodes + 1
       ELSE UNCHANGED <<wpc, wtask, tasks, decodes>>
    /\ UNCHANGED <<cacheVars, loading_tiles, current_worker_idx, slide, running, events,
                   mainPc, otl, lru, dispatchCount, delivered, dropped, tilesUpdated,
                   dispatchLog, stageVars, lockVars, viewVars>>

\* TileLoader.run: under the lock, pop the first task, or wait on the condition
\* (until notified or timed out), find no task and test the while loop again.
\* MaxDecodes caps the pops: once it is reached a worker with pending tasks
\* pops no more, and if stop() was called it leaves the loop as a worker does
\* whose while test came after the stop().
run_pop(w) ==
    /\ wpc[w] = "lock"
    /\ IF tasks[w] # <<>> /\ decodes < MaxDecodes
       THEN /\ wtask' = [wtask EXCEPT ![w] = Head(tasks[w])]
            /\ tasks' = [tasks EXCEPT ![w] = Tail(tasks[w])]
            /\ wpc' = [wpc EXCEPT ![w] = "load"]
            /\ decodes' = decodes + 1
       ELSE /\ tasks[w] = <<>> \/ ~running[w]
            /\ wpc' = [wpc EXCEPT ![w] = IF running[w] THEN "lock" ELSE "exited"]
            /\ UNCHANGED <<wtask, tasks, decodes>>
    /\ UNCHANGED <<cacheVars, loading_tiles, current_worker_idx, slide, running, events,
                   mainPc, otl, lru, dispatchCount, delivered, dropped, tilesUpdated,
                   dispatchLog, stageVars, lockVars, viewVars>>

\* The pixmap load_tile decodes for a key: the pixels of that region of the slide.
DecodedPixmap(key) == "p1"

\* TileLoader.run: load_tile returned a pixmap, tileLoaded is emitted (queued
\* to the main thread).
run_loaded(w) ==
    /\ wpc[w] = "load"
    /\ events' = Append(events, [pixmap |-> DecodedPixmap(wtask[w]), key |-> wtask[w]])
    /\ wtask' = [wtask EXCEPT ![w] = NoTask]
    /\ wpc' = [wpc EXCEPT ![w] = "while"]
    /\ UNCHANGED <<cacheVars, loading_tiles, current_worker_idx, slide, tasks, running,
                   mainPc, otl, historyVars, tilesUpdated, stageVars, lockVars, viewVars>>

\* TileLoader.run: load_tile caught an exception and returned None.
run_failed(w) ==
    /\ wpc[w] = "load"
    /\ dropped' = dropped \cup {wtask[w]}
    /\ wtask' = [wtask EXCEPT ![w] = NoTask]
    /\ wpc' = [wpc EXCEPT ![w] = "while"]
    /\ UNCHANGED <<cacheVars, loading_tiles, current_worker_idx, slide, tasks, running,
                   events, mainPc, otl, lru, dispatchCount, delivered, decodes, tilesUpdated, dispatchLog, stageVars, lockVars, viewVars>>

Next ==
    \/ \E rq \in ViewRequests : load_tiles_for_view(rq[1], rq[2])
    \/ \E key \in GetTileKeys : get_tile(key[1], key[2], key[3])
    \/ on_tile_loaded_discard
    \/ on_tile_loaded_put
    \/ close_stop
    \/ close_join
    \/ \E w \in Workers : run_while(w)
    \/ \E w \in Workers : run_pop(w)
    \/ \E w \in Workers : run_loaded(w)
    \/ \E w \in Workers : run_failed(w)

Spec == Init /\ [][Next]_vars

\* The threads are scheduled: a worker thread goes on with the next step of
\* run (the condition wait times out after 0.1 s, a decode returns or raises),
\* and the main thread inside close() goes on to the end of close().
Fairness ==
    /\ \A w \in Workers :
           /\ WF_vars(run_while(w))
           /\ WF_vars(run_pop(w))
           /\ WF_vars(run_loaded(w) \/ run_failed(w))
    /\ WF_vars(close_join)

SpecLive == Spec /\ Fairness

\* ------------------------------------------- SpecStages: the level stages
\* Zoom levels of the calls, in thousandths (0.3 is 300, 0.03 is 30, 0.004 is
\* 4): the thresholds, their neighbours and values between them.
Zooms == {0, 1, 3, 4, 5, 10, 29, 30, 31, 299, 300, 301, 500, 1000}

\* A slip: the comparisons are strict.
StageLevel_strict(zoom) ==
    IF level_stages = <<>> THEN 0
    ELSE IF zoom > 300 THEN level_stages[1]
    ELSE IF zoom > 30 THEN level_stages[2]
    ELSE IF zoom > 4 THEN level_stages[3]
    ELSE level_stages[4]

\* A slip: the middle threshold is 0.003 instead of 0.03.
StageLevel_low_rung(zoom) ==
    IF level_stages = <<>> THEN 0
    ELSE IF zoom >= 300 THEN level_stages[1]
    ELSE IF zoom >= 3 THEN level_stages[2]
    ELSE IF zoom >= 4 THEN level_stages[3]
    ELSE level_stages[4]

\* What WSITileManager.get_stage_level returns for a zoom level (thousandths).
StageLevel(zoom) ==
    IF level_stages = <<>> THEN 0
    ELSE IF zoom >= 300 THEN level_stages[1]
    ELSE IF zoom >= 30 THEN level_stages[2]
    ELSE IF zoom >= 4 THEN level_stages[3]
    ELSE level_stages[4]

\* WSITileManager.get_stage_level
get_stage_level(zoom) ==
    /\ zoom_level' = zoom
    /\ stage_level' = StageLevel(zoom)
    /\ UNCHANGED <<cacheVars, managerVars, historyVars, total_levels, level_stages, lockVars, viewVars>>

InitStages == \E n \in 1..MaxLevels : InitFor(n)

NextStages == \E zoom \in Zooms : get_stage_level(zoom)

SpecStages == InitStages /\ [][NextStages]_vars

\* ------------------------------------- SpecLock: the lock of the TileCache
\* Every TileCache method runs its body inside "with self.lock".  The body is
\* taken in two steps, the change of the OrderedDict and then the change of
\* the counters, so that a state in between exists for another thread to see
\* if the lock did not keep it out.
LockKeys == {<<tx, 0, 0>> : tx \in 0..MaxForLevel(0)}
CacheCalls ==
    {[op |-> "put", key |-> k, pixmap |-> "p1"] : k \in LockKeys}
        \cup {[op |-> "get", key |-> k, pixmap |-> None] : k \in LockKeys}
        \cup {[op |-> o, key |-> NoTask, pixmap |-> None] :
                   o \in {"clear", "get_all_keys", "get_stats"}}

\* What a TileCache method does to the cache object.
ApplyCall(tc, call) ==
    IF call.op = "put" THEN TileCache_put(tc, call.key, call.pixmap)
    ELSE IF call.op = "get" THEN TileCache_get(tc, call.key).tc
    ELSE IF call.op = "clear" THEN TileCache_clear(tc)
    ELSE tc

\* A slip: the method body is entered without taking the lock.
lock_acquire_unlocked(t, call) ==
    /\ cpc[t] = "out"
    /\ call.op = "put" /\ ~InCache(cache, call.key)
           /\ DictGet(level_counts, KeyLevel(call.key), 0) >= MaxForLevel(KeyLevel(call.key))
           => total_evictions < MaxEvictions
    /\ cache_lock' = t
    /\ cpc' = [cpc EXCEPT ![t] = "in"]
    /\ cop' = [cop EXCEPT ![t] = [call |-> call, before |-> TC, after |-> TC]]
    /\ UNCHANGED <<cacheVars, managerVars, historyVars, stageVars, tasks_lock, adding, viewVars>>

\* "with self.lock:" of a TileCache method, the acquire: the thread waits
\* until the lock is free.  MaxEvictions caps the puts that evict.
lock_acquire(t, call) ==
    /\ cpc[t] = "out"
    /\ cache_lock = NoHolder
    /\ call.op = "put" /\ ~InCache(cache, call.key)
           /\ DictGet(level_counts, KeyLevel(call.key), 0) >= MaxForLevel(KeyLevel(call.key))
           => total_evictions < MaxEvictions
    /\ cache_lock' = t
    /\ cpc' = [cpc EXCEPT ![t] = "in"]
    /\ cop' = [cop EXCEPT ![t] = [call |-> call, before |-> TC, after |-> TC]]
    /\ UNCHANGED <<cacheVars, managerVars, historyVars, stageVars, tasks_lock, adding, viewVars>>

\* The body of the method, first part: the OrderedDict is changed (entry
\* deleted, added, moved to the end, or all entries dropped).
lock_body(t) ==
    /\ cpc[t] = "in"
    /\ LET r == ApplyCall(TC, cop[t].call)
       IN  /\ cache' = r.cache
           /\ cop' = [cop EXCEPT ![t].after = r]
           /\ lru' = IF cop[t].call.op \in {"put", "get"}
                     THEN Touched(lru, r.cache, cop[t].call.key)
                     ELSE IF cop[t].call.op = "clear" THEN <<>> ELSE lru
    /\ cpc' = [cpc EXCEPT ![t] = "mid"]
    /\ UNCHANGED <<level_counts, total_evictions, managerVars, dispatchCount, delivered,
                   decodes, dropped, dispatchLog, stageVars, cache_lock, tasks_lock, adding,
                   viewVars>>

\* The body of the method, second part, and the end of the with block: the
\* counters are set and the lock is released.
lock_release(t) ==
    /\ cpc[t] = "mid"
    /\ level_counts' = cop[t].after.level_counts
    /\ total_evictions' = cop[t].after.total_evictions
    /\ cache_lock' = NoHolder
    /\ cpc' = [cpc EXCEPT ![t] = "out"]
    /\ cop' = [cop EXCEPT ![t] = [call |-> NoCall, before |-> NewTileCache,
                                  after |-> NewTileCache]]
    /\ UNCHANGED <<cache, managerVars, historyVars, stageVars, tasks_lock, adding, viewVars>>

NextLock ==
    \/ \E t \in CacheThreads, call \in CacheCalls : lock_acquire(t, call)
    \/ \E t \in CacheThreads : lock_body(t)
    \/ \E t \in CacheThreads : lock_release(t)

SpecLock == Init /\ [][NextLock]_vars

\* ------------------------------ SpecLoader: the lock of the TileLoader
\* One TileLoader, the first worker, under add_task calls of the rendering
\* thread, with the "with self.lock" blocks of add_task and run taken step by
\* step.
LoaderKeys == {<<tx, 0, 0>> : tx \in 0..2}
Loaders == {0}

\* TileLoader.add_task, the acquire of "with self.lock".
add_task_acquire(w, task) ==
    /\ mainPc = "idle"
    /\ tasks_lock[w] = "free"
    /\ tasks_lock' = [tasks_lock EXCEPT ![w] = "caller"]
    /\ adding' = [worker |-> w, task |-> task]
    /\ mainPc' = "add"
    /\ UNCHANGED <<cacheVars, loading_tiles, current_worker_idx, slide, tasks, running, wpc,
                   wtask, events, otl, tilesUpdated, historyVars, stageVars, cache_lock, cpc,
                   cop, viewVars>>

\* TileLoader.add_task, the body and the end of the with block.
add_task_body ==
    /\ mainPc = "add"
    /\ tasks' = [tasks EXCEPT ![adding.worker] = add_task(@, adding.task)]
    /\ tasks_lock' = [tasks_lock EXCEPT ![adding.worker] = "free"]
    /\ adding' = NoAdd
    /\ mainPc' = "idle"
    /\ UNCHANGED <<cacheVars, loading_tiles, current_worker_idx, slide, running, wpc,
                   wtask, events, otl, tilesUpdated, historyVars, stageVars, cache_lock, cpc,
                   cop, viewVars>>

\* TileLoader.run, the acquire of "with self.lock".  MaxDecodes caps the
\* pops: a worker with pending tasks does not go on once it is reached.
run_acquire(w) ==
    /\ wpc[w] = "lock"
    /\ tasks_lock[w] = "free"
    /\ tasks[w] # <<>> => decodes < MaxDecodes
    /\ tasks_lock' = [tasks_lock EXCEPT ![w] = "worker"]
    /\ wpc' = [wpc EXCEPT ![w] = "locked"]
    /\ UNCHANGED <<cacheVars, loading_tiles, current_worker_idx, slide, tasks, running,
                   wtask, events, mainPc, otl, tilesUpdated, historyVars, stageVars,
                   cache_lock, cpc, cop, adding, viewVars>>

\* A slip: the decode is inside the with block, the lock is kept after the pop.
run_locked_decodes_inside(w) ==
    /\ wpc[w] = "locked"
    /\ IF tasks[w] # <<>>
       THEN /\ wtask' = [wtask EXCEPT ![w] = Head(tasks[w])]
            /\ tasks' = [tasks EXCEPT ![w] = Tail(tasks[w])]
            /\ wpc' = [wpc EXCEPT ![w] = "load"]
            /\ decodes' = decodes + 1
            /\ UNCHANGED tasks_lock
       ELSE /\ wpc' = [wpc EXCEPT ![w] = "wait"]
            /\ tasks_lock' = [tasks_lock EXCEPT ![w] = "free"]
            /\ UNCHANGED <<wtask, tasks, decodes>>
    /\ UNCHANGED <<cacheVars, loading_tiles, current_worker_idx, slide, running, events,
                   mainPc, otl, tilesUpdated, lru, dispatchCount, delivered, dropped,
                   dispatchLog, stageVars, cache_lock, cpc, cop, adding, viewVars>>

\* TileLoader.run inside the with block: the first task is popped and the
\* block left, or condition.wait gives the lock up and the worker waits.
run_locked(w) ==
    /\ wpc[w] = "locked"
    /\ IF tasks[w] # <<>>
       THEN /\ wtask' = [wtask EXCEPT ![w] = Head(tasks[w])]
            /\ tasks' = [tasks EXCEPT ![w] = Tail(tasks[w])]
            /\ wpc' = [wpc EXCEPT ![w] = "load"]
            /\ decodes' = decodes + 1
       ELSE /\ wpc' = [wpc EXCEPT ![w] = "wait"]
            /\ UNCHANGED <<wtask, tasks, decodes>>
    /\ tasks_lock' = [tasks_lock EXCEPT ![w] = "free"]
    /\ UNCHANGED <<cacheVars, loading_tiles, current_worker_idx, slide, running, events,
                   mainPc, otl, tilesUpdated, lru, dispatchCount, delivered, dropped,
                   dispatchLog, stageVars, cache_lock, cpc, cop, adding, viewVars>>

\* TileLoader.run: condition.wait returns (notified or timed out) once it has
\* the lock again, and the with block is left.
run_wake(w) ==
    /\ wpc[w] = "wait"
    /\ tasks_lock[w] = "free"
    /\ wpc' = [wpc EXCEPT ![w] = "while"]
    /\ UNCHANGED <<cacheVars, loading_tiles, current_worker_idx, slide, tasks, running,
                   wtask, events, mainPc, otl, tilesUpdated, historyVars, stageVars, lockVars,
                   viewVars>>

NextLoader ==
    \/ \E w \in Loaders, task \in LoaderKeys : add_task_acquire(w, task)
    \/ add_task_body
    \/ \E w \in Loaders : run_while(w)
    \/ \E w \in Loaders : run_acquire(w)
    \/ \E w \in Loaders : run_locked(w)
    \/ \E w \in Loaders : run_wake(w)
    \/ \E w \in Loaders : run_loaded(w)
    \/ \E w \in Loaders : run_failed(w)

SpecLoader == Init /\ [][NextLoader]_vars

\* ------------------------------------------- SpecView: the viewer widget
\* WSIViewWidget (src/ui/wsi_view_widget.py) on top of the manager and its
\* workers.  The renderer WSIViewer of src/ui/viewer.py differs in the level
\* change of update_field_of_view and in the removal pass; the variable
\* renderer says which of the two classes the widget is.
\* The visible tile range of on_tiles_updated: start inclusive, end exclusive.
VisibleRange(view_rect, level) ==
    LET level_downsample == get_level_downsample(level)
    IN  [start_tile_x |-> Max(0, PyInt(view_rect.left, tile_size * level_downsample)),
         start_tile_y |-> Max(0, PyInt(view_rect.top, tile_size * level_downsample)),
         end_tile_x |-> PyInt(view_rect.right, tile_size * level_downsample) + 2,
         end_tile_y |-> PyInt(view_rect.bottom, tile_size * level_downsample) + 2]

\* scene.addItem of a new item for the tile key.
scene_addItem(sc, key) == DictSet(sc, key, DictGet(sc, key, 0) + 1)

\* scene.removeItem(self.tile_items[key]) for every key of keys.
scene_removeItems(sc, keys) ==
    LET left == {k \in DOMAIN sc : k \notin keys \/ sc[k] > 1}
    IN  IF left = {} THEN <<>>
        ELSE [k \in left |-> IF k \in keys THEN sc[k] - 1 ELSE sc[k]]

\* A slip: the test for an item already displayed is left out.
RenderTile_adds_again(rs, cache_key) ==
    LET r == TileCache_get(rs.tc, cache_key)
    IN  [tc |-> r.tc,
         lru |-> Touched(rs.lru, r.tc.cache, cache_key),
         tile_items |-> IF r.ret # None THEN rs.tile_items \cup {cache_key}
                        ELSE rs.tile_items,
         scene |-> IF r.ret # None THEN scene_addItem(rs.scene, cache_key)
                   ELSE rs.scene]

\* A loop body that looks the tile up and displays nothing.
RenderTile_no_display(rs, cache_key) ==
    IF cache_key \in rs.tile_items THEN rs
    ELSE LET r == TileCache_get(rs.tc, cache_key)
         IN  [tc |-> r.tc,
              lru |-> Touched(rs.lru, r.tc.cache, cache_key),
              tile_items |-> rs.tile_items,
              scene |-> rs.scene]

\* The body of the rendering loop of on_tiles_updated for one key; rs carries
\* the cache and the displayed tiles.
RenderTile(rs, cache_key) ==
    IF cache_key \in rs.tile_items THEN rs
    ELSE LET r == TileCache_get(rs.tc, cache_key)
         IN  [tc |-> r.tc,
              lru |-> Touched(rs.lru, r.tc.cache, cache_key),
              tile_items |-> IF r.ret # None THEN rs.tile_items \cup {cache_key}
                             ELSE rs.tile_items,
              scene |-> IF r.ret # None THEN scene_addItem(rs.scene, cache_key)
                        ELSE rs.scene]

RECURSIVE RenderLoop(_, _, _)
RenderLoop(keys, i, rs) ==
    IF i > Len(keys) \/ rs.tile_items = {<<>>}
    THEN rs
    ELSE RenderLoop(keys, i + 1, RenderTile(rs, keys[i]))

\* WSIViewWidget._is_tile_covered on the displayed tiles items.
is_tile_covered(tx, ty, old_level, rg, new_level, items) ==
    LET old_downsample == get_level_downsample(old_level)
        level_downsample == get_level_downsample(new_level)
        old_tile_x0 == tx * tile_size * old_downsample
        old_tile_y0 == ty * tile_size * old_downsample
        old_tile_x1 == old_tile_x0 + tile_size * old_downsample
        old_tile_y1 == old_tile_y0 + tile_size * old_downsample
    IN  \A new_ty \in rg.start_tile_y..(rg.end_tile_y - 1) :
            \A new_tx \in rg.start_tile_x..(rg.end_tile_x - 1) :
                LET new_tile_x0 == new_tx * tile_size * level_downsample
                    new_tile_y0 == new_ty * tile_size * level_downsample
                    new_tile_x1 == new_tile_x0 + tile_size * level_downsample
                    new_tile_y1 == new_tile_y0 + tile_size * level_downsample
                IN  ~(new_tile_x1 < old_tile_x0 \/ new_tile_x0 > old_tile_x1
                          \/ new_tile_y1 < old_tile_y0 \/ new_tile_y0 > old_tile_y1)
                        => <<new_tx, new_ty, new_level>> \in items

\* The test without the slack: outside the visible range itself.
OutsideSlack_no_margin(key, rg) ==
    \/ key[1] < rg.start_tile_x \/ key[1] > rg.end_tile_x
    \/ key[2] < rg.start_tile_y \/ key[2] > rg.end_tile_y

\* Outside the visible range widened by the slack of two tiles.
OutsideSlack(key, rg) ==
    \/ key[1] < rg.start_tile_x - 2 \/ key[1] > rg.end_tile_x + 2
    \/ key[2] < rg.start_tile_y - 2 \/ key[2] > rg.end_tile_y + 2

\* WSIViewWidget._cleanup_tiles: the displayed tiles it leaves.
cleanup_tiles(items, rg, level) ==
    LET keys_to_remove ==
            {key \in items :
                IF key[3] = level THEN OutsideSlack(key, rg)
                ELSE is_tile_covered(key[1], key[2], key[3], rg, level, items)}
    IN  items \ keys_to_remove

\* The removal pass at the end of WSIViewer.on_tiles_updated (viewer.py).
viewer_removal_pass(items, rg, level) ==
    items \ {key \in items : key[3] # level \/ OutsideSlack(key, rg)}

\* The removal pass that ends on_tiles_updated, on what the rendering
\* loop left.
removal_pass(rs, rg, level) ==
    LET kept == IF renderer = "WSIViewer"
                THEN viewer_removal_pass(rs.tile_items, rg, level)
                ELSE cleanup_tiles(rs.tile_items, rg, level)
    IN  [tc |-> rs.tc, lru |-> rs.lru, tile_items |-> kept,
         removed |-> rs.tile_items \ kept,
         scene |-> scene_removeItems(rs.scene, rs.tile_items \ kept)]

\* on_tiles_updated of the widget for a viewport and a zoom level, from a
\* cache tc_ and displayed tiles items: the cache and the displayed tiles it
\* leaves.
on_tiles_updated(tc_, lru_, items, scene_, view_rect, zoom) ==
    LET level == StageLevel(zoom)
        rg == VisibleRange(view_rect, level)
    IN  removal_pass(RenderLoop(RangeKeys(rg, level), 1,
                                [tc |-> tc_, lru |-> lru_, tile_items |-> items,
                                 scene |-> scene_]),
                     rg, level)

\* A level change that leaves the displayed tiles alone.
flush_tiles_keeps(items, level_changed) == items

\* The level change of WSIViewer.update_field_of_view (viewer.py): every
\* displayed tile is removed and tile_items cleared; WSIViewWidget has no
\* such step.
flush_tiles(items, level_changed) ==
    IF renderer = "WSIViewer" /\ level_changed THEN {} ELSE items

\* update_field_of_view of the widget for the viewport view_rect and the zoom
\* level zoom: get_stage_level, the level change, load_tiles_for_view and
\* on_tiles_updated.
update_field_of_view(view_rect, zoom) ==
    LET level == StageLevel(zoom)
        level_changed == current_level # level
        items == flush_tiles(tile_items, level_changed)
    IN  \E st \in {IF slide THEN LoadResult(view_rect, level)
                    ELSE [tc |-> TC, lru |-> lru, loading_tiles |-> loading_tiles,
                          tasks |-> tasks, current_worker_idx |-> current_worker_idx,
                          dispatchCount |-> dispatchCount, dropped |-> dropped,
                          dispatchLog |-> dispatchLog]} :
            \E r \in {on_tiles_updated(st.tc, st.lru, items,
                                       scene_removeItems(scene, tile_items \ items),
                                       view_rect, zoom)} :
                /\ viewport' = view_rect
                /\ view_zoom' = zoom
                /\ zoom_level' = zoom
                /\ stage_level' = level
                /\ current_level' = level
                /\ loading_tiles' = st.loading_tiles
                /\ tasks' = st.tasks
                /\ current_worker_idx' = st.current_worker_idx
                /\ dispatchCount' = st.dispatchCount
                /\ dropped' = st.dropped
                /\ dispatchLog' = st.dispatchLog
                /\ SetTC(r.tc)
                /\ lru' = r.lru
                /\ tile_items' = r.tile_items
                /\ removed' = r.removed
                /\ flushed' = tile_items \ items
                /\ scene' = r.scene

\* Viewports and zoom levels of the widget: a view at the origin and a view
\* more than two level-1 tiles away from it, each at a zoom level that shows
\* native level 0 and at one that shows native level 1.
NearView == [left |-> 0, top |-> 0, right |-> 400, bottom |-> 400]
FarView == [left |-> 6200, top |-> 0, right |-> 6600, bottom |-> 400]
ViewStates == {<<NearView, 100>>, <<NearView, 1000>>, <<FarView, 100>>}
\* What fit_to_window sets for the slide: the whole image at level 1.
FitView == NearView
FitZoom == 100

\* A pan, zoom or resize of the widget: the viewport and the zoom level
\* change and update_field_of_view runs.
set_view(view_rect, zoom) ==
    /\ mainPc = "idle"
    /\ tile_manager
    /\ update_field_of_view(view_rect, zoom)
    /\ UNCHANGED <<slide, running, wpc, wtask, events, mainPc, otl, tilesUpdated, delivered,
                   decodes, total_levels, level_stages, lockVars, tile_manager, load_wsi_ret,
                   renderer, opening>>

\* A slot that draws the delivered tile itself, whatever the view is.
view_on_tile_loaded_put_draws ==
    /\ mainPc = "put"
    /\ \E tc1 \in {TileCache_put(TC, otl.key, otl.pixmap)} :
           \E r \in {on_tiles_updated(tc1, Touched(lru, tc1.cache, otl.key), tile_items,
                                      scene, viewport, view_zoom)} :
               /\ SetTC(r.tc)
               /\ lru' = r.lru
               /\ tile_items' = r.tile_items \cup {otl.key}
               /\ removed' = r.removed \ {otl.key}
               /\ scene' = IF otl.key \in r.tile_items THEN r.scene
                           ELSE scene_addItem(r.scene, otl.key)
    /\ flushed' = {}
    /\ zoom_level' = view_zoom
    /\ stage_level' = StageLevel(view_zoom)
    /\ tilesUpdated' = tilesUpdated + 1
    /\ mainPc' = "idle"
    /\ otl' = NoCompletion
    /\ UNCHANGED <<loading_tiles, current_worker_idx, slide, tasks, running, wpc, wtask,
                   events, dispatchCount, delivered, decodes, dropped, dispatchLog,
                   total_levels, level_stages, lockVars, tile_manager, current_level,
                   view_zoom, viewport, load_wsi_ret, renderer, opening>>

\* A slip: the widget is not connected to tilesUpdated, a completion is
\* cached and nothing is drawn.
view_on_tile_loaded_put_unconnected == on_tile_loaded_put

\* WSITileManager.on_tile_loaded from cache.put on, with the widget connected
\* to tilesUpdated: the emit runs the widget's on_tiles_updated.
view_on_tile_loaded_put ==
    /\ mainPc = "put"
    /\ \E tc1 \in {TileCache_put(TC, otl.key, otl.pixmap)} :
           \E r \in {on_tiles_updated(tc1, Touched(lru, tc1.cache, otl.key), tile_items,
                                      scene, viewport, view_zoom)} :
               /\ SetTC(r.tc)
               /\ lru' = r.lru
               /\ tile_items' = r.tile_items
               /\ removed' = r.removed
               /\ scene' = r.scene
    /\ flushed' = {}
    /\ zoom_level' = view_zoom
    /\ stage_level' = StageLevel(view_zoom)
    /\ tilesUpdated' = tilesUpdated + 1
    /\ mainPc' = "idle"
    /\ otl' = NoCompletion
    /\ UNCHANGED <<loading_tiles, current_worker_idx, slide, tasks, running, wpc, wtask,
                   events, dispatchCount, delivered, decodes, dropped, dispatchLog,
                   total_levels, level_stages, lockVars, tile_manager, current_level,
                   view_zoom, viewport, load_wsi_ret, renderer, opening>>

\* load_wsi up to the wait() calls of the old manager's close(): stop() on
\* every worker.  outcome says whether the slide file will open.
load_wsi_begin(outcome) ==
    /\ mainPc = "idle"
    /\ opening' = outcome
    /\ IF tile_manager
       THEN /\ running' = [w \in Workers |-> FALSE]
            /\ mainPc' = "join"
       ELSE /\ mainPc' = "open"
            /\ UNCHANGED running
    /\ UNCHANGED <<cacheVars, loading_tiles, current_worker_idx, slide, tasks, wpc, wtask,
                   events, otl, tilesUpdated, historyVars, stageVars, lockVars, tile_manager,
                   tile_items, current_level, view_zoom, viewport, load_wsi_ret, renderer,
                   removed, flushed, scene>>

\* load_wsi from the end of close() to the construction of the new manager:
\* the old manager is cleared, the scene and tile_items are cleared, and
\* WSITileManager() either raises, so that load_wsi returns False, or leaves
\* a new manager with its workers started.
load_wsi_open ==
    /\ \/ mainPc = "join" /\ \A w \in Workers : wpc[w] = "exited"
       \/ mainPc = "open"
    /\ tile_items' = {}
    /\ scene' = <<>>
    /\ opening' = "no"
    /\ IF opening = "fail"
       THEN /\ IF tile_manager
               THEN /\ SetTC(TileCache_clear(TC))
                    /\ lru' = <<>>
                    /\ loading_tiles' = {}
                    /\ slide' = FALSE
               ELSE UNCHANGED <<cacheVars, lru, loading_tiles, slide>>
            /\ load_wsi_ret' = "False"
            /\ mainPc' = "idle"
            /\ UNCHANGED <<current_worker_idx, tasks, running, wpc, wtask, events, otl,
                           tilesUpdated, dispatchCount, delivered, decodes, dropped,
                           dispatchLog, tile_manager>>
       ELSE /\ SetTC(NewTileCache)
            /\ lru' = <<>>
            /\ loading_tiles' = {}
            /\ slide' = TRUE
            /\ current_worker_idx' = 0
            /\ tasks' = [w \in Workers |-> <<>>]
            /\ running' = [w \in Workers |-> TRUE]
            /\ wpc' = [w \in Workers |-> "while"]
            /\ wtask' = [w \in Workers |-> NoTask]
            /\ events' = <<>>
            /\ otl' = NoCompletion
            /\ tilesUpdated' = 0
            /\ dispatchCount' = <<>>
            /\ delivered' = 0
            /\ decodes' = 0
            /\ dropped' = {}
            /\ dispatchLog' = <<>>
            /\ tile_manager' = TRUE
            /\ mainPc' = "fit"
            /\ UNCHANGED load_wsi_ret
    /\ UNCHANGED <<stageVars, lockVars, current_level, view_zoom, viewport, renderer,
                   removed, flushed>>

\* load_wsi, the rest: fit_to_window sets the view and runs
\* update_field_of_view, and load_wsi returns True.
load_wsi_fit ==
    /\ mainPc = "fit"
    /\ update_field_of_view(FitView, FitZoom)
    /\ load_wsi_ret' = "True"
    /\ mainPc' = "idle"
    /\ UNCHANGED <<slide, running, wpc, wtask, events, otl, tilesUpdated, delivered,
                   decodes, total_levels, level_stages, lockVars, tile_manager, renderer,
                   opening>>

\* The widget after its construction, of class cls: no slide is loaded, there
\* is no manager and no worker.
InitWidget(cls) ==
    /\ cache = NewTileCache.cache
    /\ level_counts = NewTileCache.level_counts
    /\ total_evictions = NewTileCache.total_evictions
    /\ loading_tiles = {}
    /\ current_worker_idx = 0
    /\ slide = FALSE
    /\ tasks = [w \in Workers |-> <<>>]
    /\ running = [w \in Workers |-> FALSE]
    /\ wpc = [w \in Workers |-> "exited"]
    /\ wtask = [w \in Workers |-> NoTask]
    /\ events = <<>>
    /\ mainPc = "idle"
    /\ otl = NoCompletion
    /\ lru = <<>>
    /\ dispatchCount = <<>>
    /\ delivered = 0
    /\ decodes = 0
    /\ dropped = {}
    /\ tilesUpdated = 0
    /\ dispatchLog = <<>>
    /\ total_levels = level_count
    /\ level_stages = setup_level_stages(level_count)
    /\ zoom_level = NoLevel
    /\ stage_level = NoLevel
    /\ cache_lock = NoHolder
    /\ cpc = [t \in CacheThreads |-> "out"]
    /\ cop = [t \in CacheThreads |-> [call |-> NoCall, before |-> NewTileCache,
                                      after |-> NewTileCache]]
    /\ tasks_lock = [w \in Workers |-> "free"]
    /\ adding = NoAdd
    /\ tile_manager = FALSE
    /\ tile_items = {}
    /\ current_level = -1
    /\ view_zoom = 1000
    /\ viewport = NoView
    /\ load_wsi_ret = "None"
    /\ renderer = cls
    /\ opening = "no"
    /\ removed = {}
    /\ flushed = {}
    /\ scene = <<>>

\* The manager state that the loops of load_tiles_for_view start from in a
\* new manager.
FreshManager ==
    [tc |-> NewTileCache, lru |-> <<>>, loading_tiles |-> {},
     tasks |-> [w \in Workers |-> <<>>], current_worker_idx |-> 0,
     dispatchCount |-> <<>>, dropped |-> {}, dispatchLog |-> <<>>]

\* The widget of class cls after load_wsi returned True on it for the first
\* time: the manager is new, its workers are started, fit_to_window has set
\* the view and update_field_of_view has dispatched the footprint of the view.
InitLoaded(cls) ==
    /\ slide = TRUE
    /\ total_levels = level_count
    /\ level_stages = setup_level_stages(level_count)
    /\ LET level == StageLevel(FitZoom)
           st == LoadLoop(RangeKeys(TileRange(FitView, level), level), 1, FreshManager)
       IN  /\ cache = st.tc.cache
           /\ level_counts = st.tc.level_counts
           /\ total_evictions = st.tc.total_evictions
           /\ lru = st.lru
           /\ loading_tiles = st.loading_tiles
           /\ tasks = st.tasks
           /\ current_worker_idx = st.current_worker_idx
           /\ dispatchCount = st.dispatchCount
           /\ dropped = st.dropped
           /\ dispatchLog = st.dispatchLog
           /\ current_level = level
           /\ stage_level = level
    /\ zoom_level = FitZoom
    /\ running = [w \in Workers |-> TRUE]
    /\ wpc = [w \in Workers |-> "while"]
    /\ wtask = [w \in Workers |-> NoTask]
    /\ events = <<>>
    /\ mainPc = "idle"
    /\ otl = NoCompletion
    /\ delivered = 0
    /\ decodes = 0
    /\ tilesUpdated = 0
    /\ cache_lock = NoHolder
    /\ cpc = [t \in CacheThreads |-> "out"]
    /\ cop = [t \in CacheThreads |-> [call |-> NoCall, before |-> NewTileCache,
                                      after |-> NewTileCache]]
    /\ tasks_lock = [w \in Workers |-> "free"]
    /\ adding = NoAdd
    /\ tile_manager = TRUE
    /\ tile_items = {}
    /\ view_zoom = FitZoom
    /\ viewport = FitView
    /\ load_wsi_ret = "True"
    /\ renderer = cls
    /\ opening = "no"
    /\ removed = {}
    /\ flushed = {}
    /\ scene = <<>>

\* Tiles that were decoded in the session that InitUsed describes.
UsedKeys == <<<<0, 0, 1>>, <<0, 0, 0>>>>

\* The load loops of the three views of a session, one after the other, in a
\* new manager with nothing cached yet.
UsedDispatch ==
    LET l1 == StageLevel(FitZoom)
        l0 == StageLevel(1000)
        st1 == LoadLoop(RangeKeys(TileRange(FitView, l1), l1), 1, FreshManager)
        st2 == LoadLoop(RangeKeys(TileRange(NearView, l0), l0), 1, st1)
    IN  LoadLoop(RangeKeys(TileRange(FarView, l1), l1), 1, st2)

\* The widget of class cls later in a session: after load_wsi the user zoomed
\* in on the near view and then went to the far view at level 1 before a tile
\* had arrived; since then the workers have taken every task, the decodes of
\* UsedKeys succeeded and were delivered, late, and every other decode failed.
InitUsed(cls) ==
    /\ slide = TRUE
    /\ total_levels = level_count
    /\ level_stages = setup_level_stages(level_count)
    /\ \E st \in {UsedDispatch} :
           /\ loading_tiles = st.loading_tiles \ {UsedKeys[i] : i \in 1..Len(UsedKeys)}
           /\ dropped = st.loading_tiles \ {UsedKeys[i] : i \in 1..Len(UsedKeys)}
           /\ current_worker_idx = st.current_worker_idx
           /\ dispatchCount = st.dispatchCount
           /\ dispatchLog = st.dispatchLog
           /\ decodes = Len(st.dispatchLog)
    /\ cache = [i \in 1..Len(UsedKeys) |-> [key |-> UsedKeys[i], pixmap |-> DecodedPixmap(UsedKeys[i])]]
    /\ level_counts = (0 :> 1) @@ (1 :> 1) @@ (2 :> 0) @@ (3 :> 0)
    /\ total_evictions = 0
    /\ lru = UsedKeys
    /\ tasks = [w \in Workers |-> <<>>]
    /\ running = [w \in Workers |-> TRUE]
    /\ wpc = [w \in Workers |-> "while"]
    /\ wtask = [w \in Workers |-> NoTask]
    /\ events = <<>>
    /\ mainPc = "idle"
    /\ otl = NoCompletion
    /\ delivered = Len(UsedKeys)
    /\ tilesUpdated = Len(UsedKeys)
    /\ zoom_level = FitZoom
    /\ stage_level = StageLevel(FitZoom)
    /\ cache_lock = NoHolder
    /\ cpc = [t \in CacheThreads |-> "out"]
    /\ cop = [t \in CacheThreads |-> [call |-> NoCall, before |-> NewTileCache,
                                      after |-> NewTileCache]]
    /\ tasks_lock = [w \in Workers |-> "free"]
    /\ adding = NoAdd
    /\ tile_manager = TRUE
    /\ tile_items = {}
    /\ current_level = StageLevel(FitZoom)
    /\ view_zoom = FitZoom
    /\ viewport = FarView
    /\ load_wsi_ret = "True"
    /\ renderer = cls
    /\ opening = "no"
    /\ removed = {}
    /\ flushed = {}
    /\ scene = <<>>

InitView == InitLoaded("WSIViewWidget") \/ InitUsed("WSIViewWidget")

NextView ==
    \/ \E v \in ViewStates : set_view(v[1], v[2])
    \/ on_tile_loaded_discard
    \/ view_on_tile_loaded_put
    \/ \E w \in Workers : run_while(w)
    \/ \E w \in Workers : run_pop(w)
    \/ \E w \in Workers : run_loaded(w)
    \/ \E w \in Workers : run_failed(w)

SpecView == InitView /\ [][NextView]_vars

\* ------------------------------- SpecMargin: views in the scene margin
\* load_wsi gives the scene a margin around the slide, so the viewport can
\* reach negative scene coordinates: a view far out in the margin, a view in
\* the margin next to the slide, and a view half in the margin.
OutsideView == [left |-> -3400, top |-> -3400, right |-> -3000, bottom |-> -3000]
MarginView == [left |-> -500, top |-> -500, right |-> -100, bottom |-> -100]
CornerView == [left |-> -300, top |-> -300, right |-> 200, bottom |-> 200]
MarginStates == {<<OutsideView, 1000>>, <<MarginView, 1000>>, <<CornerView, 100>>}

NextMargin ==
    \/ \E v \in MarginStates : set_view(v[1], v[2])
    \/ on_tile_loaded_discard
    \/ view_on_tile_loaded_put
    \/ \E w \in Workers : run_while(w)
    \/ \E w \in Workers : run_pop(w)
    \/ \E w \in Workers : run_loaded(w)
    \/ \E w \in Workers : run_failed(w)

SpecMargin == InitView /\ [][NextMargin]_vars

\* ------------------------------------- SpecViewer: the viewer of viewer.py
\* WSIViewer has the handlers of WSIViewWidget with the level change of its
\* update_field_of_view and its own removal pass.
InitViewer == InitLoaded("WSIViewer") \/ InitUsed("WSIViewer")

SpecViewer == InitViewer /\ [][NextView]_vars

\* ------------------------------------- SpecShow: tiles arrive for a view
\* A viewport in the margin above the slide whose visible tile range at level
\* 1 is the two tiles (0,0) and (1,0), the first task of each worker.
EdgeView == [left |-> -1600, top |-> -4000, right |-> 400, bottom |-> -2400]

\* Tasks worker w has popped.
PoppedBy(w) ==
    Cardinality({i \in 1..Len(dispatchLog) : dispatchLog[i].worker = w}) - Len(tasks[w])

\* TileLoader.run under the lock, as run_pop, with MaxPopsEach capping the
\* pops of each worker instead of MaxDecodes the pops of all workers together.
run_pop_each(w) ==
    /\ wpc[w] = "lock"
    /\ IF tasks[w] # <<>> /\ PoppedBy(w) < MaxPopsEach
       THEN /\ wtask' = [wtask EXCEPT ![w] = Head(tasks[w])]
            /\ tasks' = [tasks EXCEPT ![w] = Tail(tasks[w])]
            /\ wpc' = [wpc EXCEPT ![w] = "load"]
            /\ decodes' = decodes + 1
       ELSE /\ tasks[w] = <<>> \/ ~running[w]
            /\ wpc' = [wpc EXCEPT ![w] = IF running[w] THEN "lock" ELSE "exited"]
            /\ UNCHANGED <<wtask, tasks, decodes>>
    /\ UNCHANGED <<cacheVars, loading_tiles, current_worker_idx, slide, running, events,
                   mainPc, otl, lru, dispatchCount, delivered, dropped, tilesUpdated,
                   dispatchLog, stageVars, lockVars, viewVars>>

\* The user goes to the edge view and stays there; no decode fails and the
\* manager is not closed.
NextShow ==
    \/ set_view(EdgeView, FitZoom)
    \/ on_tile_loaded_discard
    \/ view_on_tile_loaded_put
    \/ \E w \in Workers : run_while(w)
    \/ \E w \in Workers : run_pop_each(w)
    \/ \E w \in Workers : run_loaded(w)

\* Every worker thread keeps running and the event loop of the main thread
\* delivers every queued tileLoaded signal.  on_tile_loaded runs to its end
\* once it has started: its second half is enabled exactly when mainPc is
\* "put", so weak fairness on it says that mainPc is not "put" for ever.
FairShow ==
    /\ \A w \in Workers :
           /\ WF_vars(run_while(w))
           /\ WF_vars(run_pop_each(w))
           /\ WF_vars(run_loaded(w))
    /\ WF_vars(on_tile_loaded_discard)
    /\ []<>(mainPc # "put")

InitShow == InitLoaded("WSIViewWidget")

SpecShow == InitShow /\ [][NextShow]_vars /\ FairShow

\* ----------------------------------------------- SpecOpen: opening slides
\* load_wsi calls on a widget, successful or failing, with the workers and
\* the completions in between.
InitOpen == InitWidget("WSIViewWidget")

NextOpen ==
    \/ \E outcome \in {"ok", "fail"} : load_wsi_begin(outcome)
    \/ load_wsi_open
    \/ load_wsi_fit
    \/ on_tile_loaded_discard
    \/ view_on_tile_loaded_put
    \/ \E w \in Workers : run_while(w)
    \/ \E w \in Workers : run_pop(w)
    \/ \E w \in Workers : run_loaded(w)
    \/ \E w \in Workers : run_failed(w)

SpecOpen == InitOpen /\ [][NextOpen]_vars

\* ---------------------------------------------------- claims on the cache
\* Number of cached entries of a level.
CountAt(cache_, level) == Cardinality(LevelKeys(cache_, level))

\* The cached key of a level that was put or got the longest ago.
OldestOf(lru_, level) ==
    LET at == SelectSeq(lru_, LAMBDA k : KeyLevel(k) = level) IN at[1]

\* The entries of a cache that are not of the given level, in order.
OtherLevels(cache_, level) == SelectSeq(cache_, LAMBDA e : KeyLevel(e.key) # level)

\* The entries of a cache but the one of the given key, in order.
OtherKeys(cache_, key) == SelectSeq(cache_, LAMBDA e : e.key # key)

EntriesOf(cache_) == {cache_[i] : i \in 1..Len(cache_)}

AllLevels == 0..(level_count + 1)

\* C1: after any sequence of put/get/clear calls, every level holds at most
\* quota(level) cached entries; a level without its own quota has the quota of
\* level 3.
C1_QuotaInvariant ==
    \A level \in AllLevels : CountAt(cache, level) <= MaxForLevel(level)

C1_Witness ==
    /\ total_evictions > 0
    /\ \A level \in CacheLevels : CountAt(cache, level) = MaxForLevel(level)

\* C2: in every reachable cache, a put that inserts a new key of level L while
\* L is at its quota evicts exactly one entry, the level-L entry whose last put
\* or get is the oldest; and with quota(0) = 2, put(k1), put(k2), get(k1),
\* put(k3) leaves k1 and k3 and not k2.
C2_Scenario ==
    MaxForLevel(0) = 2 =>
        \A k1, k2, k3 \in {k \in CacheKeys : KeyLevel(k) = 0} :
            Cardinality({k1, k2, k3}) = 3 =>
                LET s1 == TileCache_put(TC, k1, "p1")
                    s2 == TileCache_put(s1, k2, "p1")
                    s3 == TileCache_get(s2, k1).tc
                    s4 == TileCache_put(s3, k3, "p1")
                IN  LevelKeys(s4.cache, 0) = {k1, k3}

C2_Eviction ==
    \A c \in PutCalls :
        LET key == c[1]
            level == KeyLevel(key)
            after == TileCache_put(TC, key, c[2])
        IN  (~InCache(cache, key) /\ CountAt(cache, level) >= MaxForLevel(level))
            => /\ OldestOf(lru, level) \in KeysOf(cache)
               /\ KeysOf(after.cache) = (KeysOf(cache) \ {OldestOf(lru, level)}) \cup {key}
               /\ Len(after.cache) = Len(cache)

C2_LRUEviction == C2_Eviction /\ C2_Scenario

\* The state after put(k1), put(k2), get(k1), put(k3) at level 0: k2 was evicted.
C2_Witness ==
    /\ total_evictions = 1
    /\ Len(cache) = 2
    /\ cache[1].key = <<0, 0, 0>>
    /\ cache[2].key = <<2, 0, 0>>

\* C3: in every reachable cache, a put of a key of level L removes or changes
\* no entry of another level: the cached entries of every other level are the
\* same after the put.
C3_LevelIsolation ==
    \A c \in PutCalls :
        OtherLevels(TileCache_put(TC, c[1], c[2]).cache, KeyLevel(c[1]))
            = OtherLevels(cache, KeyLevel(c[1]))

\* Every level is full and the oldest entry of the cache is not of level 0: the
\* next put of a new level-0 key has to evict.
C3_Witness ==
    /\ \A level \in CacheLevels : CountAt(cache, level) = MaxForLevel(level)
    /\ KeyLevel(cache[1].key) # 0
    /\ total_evictions > 0

\* C4: put on a key that is already cached changes neither the cached keys,
\* the stored pixmaps, the per-level counts nor the eviction counter; the key
\* becomes the most recently used and the order of the others is kept.
C4_PutOnCachedKey ==
    \A c \in PutCalls :
        LET key == c[1]
            after == TileCache_put(TC, key, c[2])
        IN  InCache(cache, key)
            => /\ KeysOf(after.cache) = KeysOf(cache)
               /\ \A k \in KeysOf(cache) : StoredPixmap(after.cache, k) = StoredPixmap(cache, k)
               /\ after.level_counts = level_counts
               /\ after.total_evictions = total_evictions
               /\ after.cache[Len(after.cache)].key = key
               /\ OtherKeys(after.cache, key) = OtherKeys(cache, key)

\* A cached key that is not the most recent holds p2, so put(key, p1) is a call
\* with another pixmap that has to move the key.
C4_Witness ==
    /\ Len(cache) >= 2
    /\ cache[1].pixmap = "p2"
    /\ total_evictions > 0

\* C5 as claimed: in every reachable cache, get(k) right after put(k, v)
\* returns v, and a get changes neither the cached keys nor their pixmaps.
C5_GetAfterPutReturnsArgument ==
    /\ \A c \in PutCalls : TileCache_get(TileCache_put(TC, c[1], c[2]), c[1]).ret = c[2]
    /\ \A key \in CacheKeys : EntriesOf(TileCache_get(TC, key).tc.cache) = EntriesOf(cache)

\* C5, amended: get(k) right after put(k, v) returns v when k was not cached
\* at the put, and the pixmap already stored for k otherwise (put keeps it); a
\* get changes neither the cached keys nor any stored pixmap.
C5_GetAfterPut ==
    /\ \A c \in PutCalls :
           TileCache_get(TileCache_put(TC, c[1], c[2]), c[1]).ret
               = IF InCache(cache, c[1]) THEN StoredPixmap(cache, c[1]) ELSE c[2]
    /\ \A key \in CacheKeys : EntriesOf(TileCache_get(TC, key).tc.cache) = EntriesOf(cache)

\* The first key of level 0 is cached with p2: put(key, p1) then get(key) is the
\* case of a put on a cached key.
C5_Witness ==
    /\ StoredPixmap(cache, <<0, 0, 0>>) = "p2"
    /\ CountAt(cache, 0) = MaxForLevel(0)

\* quota insertions of new keys of one level, one after the other.
RECURSIVE PutRun(_, _, _, _)
PutRun(tc, level, i, n) ==
    IF i >= n THEN tc
    ELSE PutRun(TileCache_put(tc, <<i, 1, level>>, "p1"), level, i + 1, n)

\* C22: clear() drops every entry of every level and resets every per-level
\* counter to zero, whatever the cache held: an empty cache has all counters
\* at zero, and after clear() each level takes quota(level) insertions without
\* an eviction, the next insertion being the first that evicts.
C22_ClearResets ==
    LET c == TileCache_clear(TC)
    IN  /\ c.cache = <<>>
        /\ cache = <<>> => \A level \in AllLevels : DictGet(level_counts, level, 0) = 0
        /\ \A level \in AllLevels :
               LET full == PutRun(c, level, 0, MaxForLevel(level))
               IN  /\ DictGet(c.level_counts, level, 0) = 0
                   /\ CountAt(full.cache, level) = MaxForLevel(level)
                   /\ full.total_evictions = total_evictions
                   /\ TileCache_put(full, <<MaxForLevel(level), 1, level>>, "p1").total_evictions
                          = total_evictions + 1

\* The cache was cleared after it had evicted: it is empty and the eviction
\* counter, which clear() keeps, is not zero.
C22_Witness ==
    /\ cache = <<>>
    /\ total_evictions > 0

\* C23: cache operations are mutually exclusive, whatever the interleaving of
\* get, put, clear, get_all_keys and get_stats calls of the worker threads and
\* the render thread: at most one thread is inside a method body and it holds
\* the lock; whenever the lock is free the per-level counters agree with the
\* cached entries; and a call leaves, at its release, the cache, the recency
\* order and the counters that the whole method gives from the state at its
\* acquire.
C23_OneInside ==
    /\ \A t1, t2 \in CacheThreads : cpc[t1] # "out" /\ cpc[t2] # "out" => t1 = t2
    /\ \A t \in CacheThreads : cpc[t] # "out" => cache_lock = t
    /\ cache_lock = NoHolder =>
           \A level \in AllLevels : DictGet(level_counts, level, 0) = CountAt(cache, level)

C23_AtomicCall ==
    \A t \in CacheThreads :
        lock_release(t) => TC' = ApplyCall(cop[t].before, cop[t].call)

C23_MutualExclusion == []C23_OneInside /\ [][C23_AtomicCall]_vars

\* A put that evicts is half done (the dict is changed, the counters are not
\* yet) while the other threads are outside.
C23_Witness ==
    \E t \in CacheThreads :
        /\ cpc[t] = "mid"
        /\ cop[t].call.op = "put"
        /\ cop[t].after.total_evictions > total_evictions
        /\ \A u \in CacheThreads \ {t} : cpc[u] = "out"

\* ---------------------------------------------------- claims on the loader
\* C24: no lock is held across a decode.  A worker that is reading and
\* converting a tile holds neither the lock of its task list nor the cache
\* lock and is in no cache method, so whenever the rendering thread is about
\* to call add_task on that worker the lock is free and the call goes on.
C24_NoLockAcrossDecode ==
    \A w \in Workers :
        wpc[w] = "load" =>
            /\ tasks_lock[w] # "worker"
            /\ cache_lock # w /\ cpc[w] = "out"
            /\ mainPc = "idle" => tasks_lock[w] = "free"

\* The rendering thread is inside add_task on the list of a worker that is
\* decoding.
C24_Witness ==
    \E w \in Workers :
        /\ wpc[w] = "load"
        /\ mainPc = "add"
        /\ adding.worker = w
        /\ tasks_lock[w] = "caller"

\* C25: add_task is idempotent on a worker's pending list.  A pending list
\* never holds a task twice; an add_task of a task that is pending leaves
\* every list as it is; an add_task of another task appends it to the list
\* of its worker and keeps what was pending, in order.
C25_NoDuplicate ==
    \A w \in Workers : \A i, j \in 1..Len(tasks[w]) : i # j => tasks[w][i] # tasks[w][j]

C25_Step ==
    add_task_body =>
        /\ \A w \in Workers \ {adding.worker} : tasks'[w] = tasks[w]
        /\ IF \E i \in 1..Len(tasks[adding.worker]) : tasks[adding.worker][i] = adding.task
           THEN tasks' = tasks
           ELSE tasks'[adding.worker] = Append(tasks[adding.worker], adding.task)

C25_AddTaskIdempotent == []C25_NoDuplicate /\ [][C25_Step]_vars

\* add_task is called with the first of two pending tasks.
C25_Witness ==
    /\ mainPc = "add"
    /\ Len(tasks[adding.worker]) >= 2
    /\ tasks[adding.worker][1] = adding.task

\* --------------------------------------------------- claims on the manager
\* The places of the queued load tasks: <<worker, position in its list>>.
TaskSlots == UNION {{<<w, i>> : i \in 1..Len(tasks[w])} : w \in Workers}

\* The workers that are decoding the task they popped.
Decoding == {w \in Workers : wpc[w] = "load"}

\* The keys that have a load task queued or being decoded.
OutstandingKeys == {tasks[s[1]][s[2]] : s \in TaskSlots} \cup {wtask[w] : w \in Decoding}

\* Load tasks for a key that are queued at a worker or being decoded by one.
Outstanding(key) ==
    Cardinality({s \in TaskSlots : tasks[s[1]][s[2]] = key})
        + Cardinality({w \in Decoding : wtask[w] = key})

\* Cache entries stored under a key.
EntriesUnder(key) == Cardinality({i \in 1..Len(cache) : cache[i].key = key})

\* C6: while no completion has been delivered, whatever load_tiles_for_view
\* calls were made, every tile key was passed to add_task at most once; and a
\* key is marked in-flight exactly when it was dispatched (the test and the
\* mark are one step of the loop).
C6_NoDuplicateDispatch ==
    delivered = 0 =>
        /\ \A k \in DOMAIN dispatchCount : dispatchCount[k] = 1
        /\ slide => loading_tiles = DOMAIN dispatchCount

\* Two calls with overlapping footprints were made and nothing was popped or
\* delivered yet: the narrow view was requested first, so that the first key
\* the wide view adds, (5, 0, 0), is the 26th dispatch.
C6_Witness ==
    /\ delivered = 0
    /\ decodes = 0
    /\ Len(tasks[25 % NumWorkers]) > 25 \div NumWorkers
    /\ tasks[25 % NumWorkers][(25 \div NumWorkers) + 1] = <<5, 0, 0>>

\* C7: in every reachable state a tile key has at most one load task queued or
\* being decoded over all workers and at most one cache entry, and no key is
\* both in the in-flight set and in the cache.
C7_Deduplicated ==
    /\ \A k \in OutstandingKeys : Outstanding(k) <= 1
    /\ \A k \in KeysOf(cache) : EntriesUnder(k) <= 1
    /\ loading_tiles \cap KeysOf(cache) = {}

\* A delivered key is cached while a worker decodes another key and further
\* tasks are queued.
C7_Witness ==
    /\ cache # <<>>
    /\ mainPc = "idle"
    /\ \E w \in Workers : wpc[w] = "load" /\ wtask[w] \in loading_tiles
    /\ \E w \in Workers : tasks[w] # <<>>

\* C8 as claimed: while on_tile_loaded handles the completion of a key, the
\* key is in the in-flight set or in the cache.
C8_RemovedOnlyAfterInserted ==
    mainPc = "put" => (otl.key \in loading_tiles \/ InCache(cache, otl.key))

\* C9 as claimed: a key whose decode failed is not cached, no completion is
\* queued for it, and a load_tiles_for_view call on the open slide whose
\* footprint covers the key dispatches a new task for it.
C9_FailedKeyCanBeRequestedAgain ==
    \A k \in dropped :
        /\ ~InCache(cache, k)
        /\ \A i \in 1..Len(events) : events[i].key # k
        /\ \A rq \in ViewRequests :
               (slide /\ mainPc = "idle" /\ k \in Footprint(rq[1], rq[2]))
               => LoadResult(rq[1], rq[2]).dispatchCount[k] > dispatchCount[k]

\* C10 as claimed: get_tile leaves the cache and the manager as they are, the
\* order of the cache included.
C10_GetTileChangesNothing ==
    [][\A key \in GetTileKeys :
          get_tile(key[1], key[2], key[3]) => UNCHANGED <<cacheVars, managerVars>>]_vars

\* C10, amended: get_tile returns the cached pixmap or None and changes
\* neither the cached keys, the stored pixmaps, the counters nor the manager;
\* a cached key becomes the most recently used and the others keep their order.
C10_GetTileOnlyRefreshes ==
    [][\A key \in GetTileKeys :
          get_tile(key[1], key[2], key[3]) =>
              /\ TileCache_get(TC, key).ret = StoredPixmap(cache, key)
              /\ EntriesOf(cache') = EntriesOf(cache)
              /\ OtherKeys(cache', key) = OtherKeys(cache, key)
              /\ InCache(cache, key) => cache'[Len(cache')].key = key
              /\ UNCHANGED <<level_counts, total_evictions, managerVars>>]_vars

\* Two tiles are cached and the older one is a key the renderer asks for: the
\* lookup moves it behind the other.
C10_Witness ==
    /\ Len(cache) >= 2
    /\ cache[1].key \in GetTileKeys
    /\ mainPc = "idle"

\* The tile indexes a span of level-0 pixels covers at a level (the index of a
\* pixel is the floor of pixel / (downsample * tile_size)), widened by the
\* margin of 4 tiles and cut below at index 0.
CoveringIndexes(low, high, level) ==
    LET span == level_downsamples[level + 1] * tile_size
    IN  {t \in (low \div span) - 4 .. (high \div span) + 4 : t >= 0}

CoveringKeys(view_rect, level) ==
    {<<tx, ty, level>> : tx \in CoveringIndexes(view_rect.left, view_rect.right, level),
                         ty \in CoveringIndexes(view_rect.top, view_rect.bottom, level)}

\* The rectangle of the scenario of C11.
Rect1024 == [left |-> 0, top |-> 0, right |-> 1024, bottom |-> 1024]

\* Load tasks for a key in the task lists of a pool.
QueuedFor(tasks_, key) ==
    Cardinality({s \in UNION {{<<w, i>> : i \in 1..Len(tasks_[w])} : w \in Workers} :
                    tasks_[s[1]][s[2]] = key})

\* load_tiles_for_view((0, 0, 1024, 1024), L) on a manager with an empty cache
\* and nothing in flight: every key of the covering range with its margin,
\* (0,0,L), (1,0,L), (0,1,L), (1,1,L) among them, gets exactly one task.
C11_Scenario ==
    (slide /\ cache = <<>> /\ loading_tiles = {} /\ mainPc = "idle") =>
        \A level \in 0..(level_count - 1) :
            LET st == LoadResult(Rect1024, level)
            IN  /\ {<<0, 0, level>>, <<1, 0, level>>, <<0, 1, level>>, <<1, 1, level>>}
                       \subseteq CoveringKeys(Rect1024, level)
                /\ \A k \in CoveringKeys(Rect1024, level) :
                       /\ QueuedFor(st.tasks, k) = 1
                       /\ st.dispatchCount[k] = 1

\* Every load_tiles_for_view step on the open slide leaves every key of the
\* covering range with its margin in the cache or marked in flight.
C11_Coverage ==
    \A rq \in ViewRequests :
        (slide /\ load_tiles_for_view(rq[1], rq[2])) =>
            \A k \in CoveringKeys(rq[1], rq[2]) : k \in loading_tiles' \/ InCache(cache', k)

\* C11: when load_tiles_for_view returns on an open slide, every tile of the
\* covering range of the rectangle, widened by 4 tiles and clamped at 0, is
\* cached or in flight; for (0, 0, 1024, 1024), tile size 512 and an empty
\* cache, the four visible keys and the margin keys are dispatched once each.
C11_FootprintCoverage == [][C11_Coverage]_vars /\ []C11_Scenario

\* Both views were requested (the narrow one first), a tile was delivered and
\* cached and the others are in flight: the footprint is split between the
\* cache and the in-flight set.
C11_Witness ==
    /\ slide
    /\ mainPc = "idle"
    /\ cache # <<>>
    /\ CoveringKeys(WideView, 0) \subseteq (loading_tiles \cup KeysOf(cache))
    /\ Cardinality(CoveringKeys(WideView, 0)) = 30

\* C12: when on_tile_loaded returns, the key of the completion is not marked
\* in flight and is in the cache, and the call has emitted tilesUpdated once;
\* between handlers there are as many notifications as delivered completions,
\* in whatever order the completions arrived.
C12_OnTileLoaded ==
    /\ [][(mainPc = "put" /\ mainPc' = "idle") =>
              /\ otl.key \notin loading_tiles'
              /\ InCache(cache', otl.key)
              /\ tilesUpdated' = tilesUpdated + 1]_vars
    /\ [](mainPc = "idle" => tilesUpdated = delivered)

\* The first completion handled is of the key dispatched second: (1, 0, 0) is
\* cached while (0, 0, 0), dispatched before it, is still in flight.
C12_Witness ==
    /\ mainPc = "idle"
    /\ tilesUpdated = 1
    /\ KeysOf(cache) = {<<1, 0, 0>>}
    /\ <<0, 0, 0>> \in loading_tiles

\* Tasks handed to a worker so far.
Handed(w) == Cardinality({n \in 1..Len(dispatchLog) : dispatchLog[n].worker = w})

\* C13: counting the dispatched tasks from 0 over all load_tiles_for_view
\* calls, task n went to worker n mod NumWorkers (a queued task sits in the
\* list of the worker it was handed to); current_worker_idx is a worker index
\* and is where the next task goes; the numbers of tasks handed to two
\* workers differ by at most one.
C13_RoundRobin ==
    /\ current_worker_idx \in 0..(NumWorkers - 1)
    /\ current_worker_idx = Len(dispatchLog) % NumWorkers
    /\ \A n \in 1..Len(dispatchLog) : dispatchLog[n].worker = (n - 1) % NumWorkers
    /\ \A s \in TaskSlots :
           \E n \in 1..Len(dispatchLog) :
               dispatchLog[n] = [key |-> tasks[s[1]][s[2]], worker |-> s[1]]
    /\ \A w1, w2 \in Workers : Handed(w1) - Handed(w2) <= 1

\* Two calls dispatched tasks, the narrow view first and then the wide one,
\* whose first new key (5, 0, 0) is dispatch number 25; tasks were popped
\* between or after the calls.
C13_Witness ==
    /\ Len(dispatchLog) = 30
    /\ dispatchLog[26].key = <<5, 0, 0>>
    /\ decodes > 0
    /\ slide

\* C14: when close() returns, every worker has left run, the cache and the
\* in-flight set are empty and the slide is released; a load_tiles_for_view
\* call on the closed manager hands out no task and marks nothing.
C14_Close ==
    /\ [][(mainPc = "join" /\ mainPc' = "idle") =>
              /\ \A w \in Workers : wpc'[w] = "exited"
              /\ cache' = <<>>
              /\ loading_tiles' = {}
              /\ ~slide']_vars
    /\ [][\A rq \in ViewRequests :
              (~slide /\ load_tiles_for_view(rq[1], rq[2])) =>
                  UNCHANGED <<tasks, loading_tiles, dispatchLog, current_worker_idx>>]_vars

\* close() has returned while tasks were still queued: they stay in the lists
\* of the exited workers, nothing is cached or in flight.
C14_Witness ==
    /\ ~slide
    /\ mainPc = "idle"
    /\ \A w \in Workers : wpc[w] = "exited" /\ tasks[w] # <<>>
    /\ cache = <<>>
    /\ loading_tiles = {}
    /\ decodes > 0

\* C15: a worker on which stop() was called leaves its loop, wherever it was
\* (waiting, with pending tasks, or decoding), and the join of close() ends.
C15_ShutdownTerminates ==
    /\ \A w \in Workers : (~running[w]) ~> (wpc[w] = "exited")
    /\ (mainPc = "join") ~> (mainPc = "idle" /\ ~slide)

\* stop() was called while one worker was decoding and another had pending
\* tasks and was past its while test.
C15_Witness ==
    /\ mainPc = "join"
    /\ \E w \in Workers : wpc[w] = "load"
    /\ \E w \in Workers : wpc[w] = "lock" /\ tasks[w] # <<>>

\* Whether dispatch n is still pending in the list of its worker.
IsPending(n) ==
    \E i \in 1..Len(tasks[dispatchLog[n].worker]) :
        tasks[dispatchLog[n].worker][i] = dispatchLog[n].key

\* The keys handed to a worker, in the order of their dispatch.
HandedKeys(w) ==
    LET mine == SelectSeq(dispatchLog, LAMBDA e : e.worker = w)
    IN  [i \in 1..Len(mine) |-> mine[i].key]

\* C16 as claimed: the tasks leave one shared queue in the order of their
\* dispatch, so a task is popped only after all tasks dispatched before it.
C16_SharedFifoOrder ==
    \A i, j \in 1..Len(dispatchLog) : (i < j /\ IsPending(i)) => IsPending(j)

\* C16, amended: every worker has its own task list; the pending tasks of a
\* worker are the last of the tasks handed to it, in the order of dispatch
\* (it pops the oldest first), and the task a worker decodes is the one
\* handed to it just before its pending ones.
C16_PerWorkerFifo ==
    \A w \in Workers :
        LET h == HandedKeys(w)
            m == Len(h) - Len(tasks[w])
        IN  /\ m >= 0
            /\ tasks[w] = SubSeq(h, m + 1, Len(h))
            /\ wpc[w] = "load" => (m >= 1 /\ wtask[w] = h[m])

\* Worker 0 decodes its second task while worker 1, free at its lock, has
\* popped none of the tasks handed to it.
C16_Witness ==
    /\ wpc[0] = "load"
    /\ Len(tasks[0]) = Handed(0) - 2
    /\ wpc[1] = "lock"
    /\ Len(tasks[1]) = Handed(1)
    /\ tasks[1] # <<>>

\* ---------------------------------------------------- claims on the widget
\* C21 as claimed: when load_wsi is called while a slide is open and opening
\* the new slide fails, load_wsi returns False, and the manager of the slide
\* that was open, its cache, its in-flight set and the displayed tiles are as
\* they were before the call.
C21_FailedOpenStep ==
    (load_wsi_open /\ opening = "fail" /\ tile_manager) =>
        /\ load_wsi_ret' = "False"
        /\ slide' = slide
        /\ cache' = cache
        /\ loading_tiles' = loading_tiles
        /\ tile_items' = tile_items

C21_FailureKeepsPreLoadState == [][C21_FailedOpenStep]_vars

\* The tiles of level new_level whose rectangle shares native pixels with the
\* level-0 footprint of the tile key.
C26_FootprintTiles(key, new_level) ==
    LET old_size == tile_size * get_level_downsample(key[3])
        new_size == tile_size * get_level_downsample(new_level)
    IN  {<<ntx, nty, new_level>> :
            ntx \in ((key[1] * old_size) \div new_size)..(((key[1] + 1) * old_size - 1) \div new_size),
            nty \in ((key[2] * old_size) \div new_size)..(((key[2] + 1) * old_size - 1) \div new_size)}

\* C26 as claimed: a displayed tile of a non-active level that the last run of
\* on_tiles_updated removed has every part of its level-0 footprint overdrawn
\* by displayed tiles of the active level.
C26_RemovedOnlyWhenOverdrawn ==
    \A key \in removed :
        key[3] # current_level => C26_FootprintTiles(key, current_level) \subseteq tile_items

\* The tile coordinates from two tiles before the start to two tiles after
\* the end of the visible tile range rg that on_tiles_updated computes.
C27_InSlack(key, rg) ==
    /\ key[1] \in (rg.start_tile_x - 2)..(rg.end_tile_x + 2)
    /\ key[2] \in (rg.start_tile_y - 2)..(rg.end_tile_y + 2)

C28_VisibleKeys ==
    LET rg == VisibleRange(viewport, current_level)
    IN  {<<tx, ty, current_level>> :
            tx \in rg.start_tile_x..(rg.end_tile_x - 1),
            ty \in rg.start_tile_y..(rg.end_tile_y - 1)}

\* C28: whenever update_field_of_view or the on_tiles_updated of a completion
\* has returned, every tile key of the active level inside the visible tile
\* range that is in the cache is displayed, whatever is still in flight.
C28_CacheHitsDisplayed ==
    mainPc = "idle" => \A key \in C28_VisibleKeys : InCache(cache, key) => key \in tile_items

\* A change of view has displayed a tile that was in the cache while tasks
\* of the new view are in flight and no completion has been processed since.
C28_Witness ==
    /\ mainPc = "idle"
    /\ viewport = NearView /\ current_level = 1
    /\ <<0, 0, 1>> \in tile_items
    /\ InCache(cache, <<0, 0, 0>>)
    /\ \E key \in C28_VisibleKeys : key \in loading_tiles

\* The completion that on_tile_loaded is processing is late: its tile is of
\* another level than the active one or outside the visible tile range.
C29_Late ==
    /\ mainPc = "put"
    /\ otl.key \notin C28_VisibleKeys

\* C29, the completion: when on_tile_loaded finishes the completion of a late
\* tile, the tile is in the cache and the renderer has not added it to the
\* displayed tiles.
C29_LateStep ==
    (C29_Late /\ mainPc' = "idle") =>
        /\ InCache(cache', otl.key)
        /\ otl.key \in tile_items' => otl.key \in tile_items

\* C29, the task: a change of the view takes no task from a queue, none from
\* a worker that is decoding, and no completion that waits for delivery.
C29_ViewStep ==
    (viewport' # viewport \/ view_zoom' # view_zoom) =>
        /\ \A w \in Workers : SubSeq(tasks'[w], 1, Len(tasks[w])) = tasks[w]
        /\ wtask' = wtask
        /\ events' = events

\* C29: a task whose tile is no longer in the visible range of the active
\* level is not cancelled by the change of view, and when its completion is
\* processed its tile is cached and not displayed.
C29_LateTileCachedNotShown == [][C29_LateStep /\ C29_ViewStep]_vars

\* on_tile_loaded is processing the completion of tile (0,0,1), which was
\* dispatched for the view at the origin and not displayed, after the view
\* moved to the far view.
C29_Witness ==
    /\ C29_Late
    /\ otl.key = <<0, 0, 1>>
    /\ viewport = FarView
    /\ <<0, 0, 1>> \notin tile_items

\* C30, after a render pass: every displayed tile of WSIViewer is of the
\* active level.
C30_OneLevelDisplayed == \A key \in tile_items : key[3] = current_level

\* C30, the level change: when update_field_of_view of WSIViewer finds
\* another target level than the active one, it takes out every displayed
\* tile before it draws: the level change removes all of them, the removal
\* pass that follows the drawing finds none of them, and none is displayed
\* afterwards.
C30_FlushStep ==
    (renderer = "WSIViewer" /\ current_level' # current_level) =>
        /\ flushed' = tile_items
        /\ removed' \cap tile_items = {}
        /\ tile_items' \cap tile_items = {}

\* C30: WSIViewer flushes the displayed tiles on a level change and never
\* shows tiles of two levels.
C30_PolicyAFlush == []C30_OneLevelDisplayed /\ [][C30_FlushStep]_vars

\* A level change of WSIViewer has taken out a displayed tile of level 1 and
\* drawn a tile of level 0 from the cache.
C30_Witness ==
    /\ renderer = "WSIViewer"
    /\ <<0, 0, 1>> \in flushed
    /\ <<0, 0, 0>> \in tile_items
    /\ current_level = 0

\* ------------------------------------------------ claims on the level stages
\* round(a / 3) as the integer nearest to a / 3 (a / 3 is never half-way).
NearestThird(a) == CHOOSE r \in 0..a : 2 * (IF 3 * r >= a THEN 3 * r - a ELSE a - 3 * r) < 3

\* The stage table C17 gives for n native levels, step being (n - 1) / 3.
ClaimedStages(n) ==
    IF n = 1 THEN <<0, 0, 0, 0>>
    ELSE IF n = 2 THEN <<0, 0, 1, 1>>
    ELSE IF n = 3 THEN <<0, 1, 2, 2>>
    ELSE <<0, NearestThird(n - 1), NearestThird(2 * (n - 1)),
           Min(n - 1, NearestThird(3 * (n - 1)))>>

\* C17: the level_stages of a slide with n native levels is [0,0,0,0] for
\* n = 1, [0,0,1,1] for n = 2, [0,1,2,2] for n = 3 and, from n = 4 on,
\* [0, round(step), round(2*step), min(n-1, round(3*step))] with
\* step = (n-1)/3; for n = 5 it is [0,1,3,4].
C17_ComputeStages ==
    /\ level_stages = ClaimedStages(total_levels)
    /\ total_levels = 5 => level_stages = <<0, 1, 3, 4>>

\* A slide of 5 native levels after a get_stage_level call.
C17_Witness ==
    /\ total_levels = 5
    /\ level_stages[3] = 3
    /\ stage_level # NoLevel

\* C18: for every number n >= 1 of native levels the four stages are
\* non-decreasing and each is in 0..n-1, and what get_stage_level returns is
\* a native level of the slide.
C18_StagesInRange ==
    /\ Len(level_stages) = 4
    /\ \A i \in 1..4 : level_stages[i] \in 0..(total_levels - 1)
    /\ \A i \in 1..3 : level_stages[i] <= level_stages[i + 1]
    /\ \A zoom \in Zooms : StageLevel(zoom) \in 0..(total_levels - 1)
    /\ stage_level # NoLevel => stage_level \in 0..(total_levels - 1)

\* The last stage was returned for the slide with the most levels: the stage
\* the clamp to n - 1 is about.
C18_Witness ==
    /\ total_levels = MaxLevels
    /\ zoom_level = 0
    /\ stage_level = total_levels - 1

\* The ladder of C19 over the stage table, zoom in thousandths.
ClaimedStage(zoom) ==
    IF zoom >= 300 THEN level_stages[1]
    ELSE IF 30 <= zoom /\ zoom < 300 THEN level_stages[2]
    ELSE IF 4 <= zoom /\ zoom < 30 THEN level_stages[3]
    ELSE level_stages[4]

\* C19: get_stage_level returns stages[0] for zoom >= 0.3, stages[1] for
\* 0.03 <= zoom < 0.3, stages[2] for 0.004 <= zoom < 0.03 and stages[3] below
\* 0.004; a larger zoom never gives a coarser level than a smaller zoom.
C19_ThresholdLadder ==
    /\ stage_level # NoLevel => stage_level = ClaimedStage(zoom_level)
    /\ \A z1, z2 \in Zooms : z1 <= z2 => StageLevel(z2) <= StageLevel(z1)

\* A call with the zoom exactly on the threshold 0.03, on a slide whose four
\* stages are different levels.
C19_Witness ==
    /\ zoom_level = 30
    /\ stage_level = level_stages[2]
    /\ Cardinality({level_stages[i] : i \in 1..4}) = 4

\* C20 as claimed: on a slide of 4 native levels get_stage_level(0.5) is 0
\* and get_stage_level(0.01) is native level 3.
C20_Zoom001IsLevel3 ==
    total_levels = 4 => (StageLevel(500) = 0 /\ StageLevel(10) = 3)

\* C20, amended: on a slide of 4 native levels the stages are [0,1,2,3],
\* get_stage_level(0.5) is 0 and get_stage_level(0.01) is stages[2], native
\* level 2; native level 3 is returned only below 0.004.
C20_Zoom001IsLevel2 ==
    total_levels = 4 =>
        /\ level_stages = <<0, 1, 2, 3>>
        /\ StageLevel(500) = 0
        /\ StageLevel(10) = 2
        /\ \A zoom \in Zooms : StageLevel(zoom) = 3 <=> zoom < 4
        /\ zoom_level = 10 => stage_level = 2

\* get_stage_level(0.01) was called on the slide of 4 native levels.
C20_Witness ==
    /\ total_levels = 4
    /\ zoom_level = 10
    /\ stage_level = 2

\* ------------------------------------------- claims on the cache counters
\* C31: in every reachable cache, the counter of each level (0 when the dict
\* has no entry for the level) is the number of cached keys of that level,
\* for the levels with a counter from the start and for the levels above 3.
C31_CounterConsistency ==
    \A level \in AllLevels \cup CacheLevels :
        DictGet(level_counts, level, 0) = CountAt(cache, level)

\* The cache holds keys of level 0 and of level 4 after an eviction, and the
\* dict has got a counter for level 4.
C31_Witness ==
    /\ total_evictions > 0
    /\ CountAt(cache, 0) > 0
    /\ CountAt(cache, 4) > 0
    /\ 4 \in DOMAIN level_counts

\* ------------------------------------------- claims on the in-flight set
\* The keys of the tasks pending in the queue of worker w.
C32_QueuedAt(w) == {tasks[w][i] : i \in 1..Len(tasks[w])}

\* C32: as long as close() has not been called, the key of every task that is
\* pending in a worker's queue or being decoded is in the in-flight set, and
\* no key is pending in the queues of two workers.
C32_PendingIsInFlight ==
    (\A w \in Workers : running[w]) =>
        /\ \A w \in Workers : C32_QueuedAt(w) \subseteq loading_tiles
        /\ \A w \in Decoding : wtask[w] \in loading_tiles
        /\ \A w1, w2 \in Workers : w1 # w2 => C32_QueuedAt(w1) \cap C32_QueuedAt(w2) = {}

\* Before close(), after a completion was delivered and its mark removed:
\* a worker is decoding and tasks are pending at every worker.
C32_Witness ==
    /\ \A w \in Workers : running[w]
    /\ delivered > 0
    /\ mainPc = "idle"
    /\ Decoding # {}
    /\ \A w \in Workers : tasks[w] # <<>>

\* ------------------------------------------ claims on the rendered range
\* The tile keys of the rendering loop of on_tiles_updated for the viewport
\* view_rect at the level level.
C33_LoopKeys(view_rect, level) ==
    LET rg == VisibleRange(view_rect, level)
    IN  {<<tx, ty, level>> :
            tx \in rg.start_tile_x..(rg.end_tile_x - 1),
            ty \in rg.start_tile_y..(rg.end_tile_y - 1)}

\* The range of the rendering loop lies inside the range of the loading loop
\* for the same rectangle and level.
C33_RangeInside(view_rect, level) ==
    LET rg == VisibleRange(view_rect, level)
        lg == TileRange(view_rect, level)
    IN  /\ lg.start_tile_x <= rg.start_tile_x /\ rg.end_tile_x <= lg.end_tile_x
        /\ lg.start_tile_y <= rg.start_tile_y /\ rg.end_tile_y <= lg.end_tile_y

\* A step in which on_tiles_updated ran: after a change of the view or for a
\* completion.
C33_RenderStep ==
    \/ viewport' # viewport
    \/ view_zoom' # view_zoom
    \/ mainPc = "put" /\ mainPc' = "idle"

\* C33 as claimed: whenever on_tiles_updated runs, its range lies inside the
\* range load_tiles_for_view covers for the same rectangle and level, and
\* every tile it looks up (the keys of its loop that are not displayed) is
\* cached, in-flight or has failed.
C33_LookupStep ==
    C33_RenderStep =>
        /\ C33_RangeInside(viewport', current_level')
        /\ \A key \in C33_LoopKeys(viewport', current_level') \ tile_items :
               key \in KeysOf(cache') \cup loading_tiles' \cup dropped'

C33_LooksUpOnlyRequestedTiles == [][C33_LookupStep]_vars

\* ------------------------------------------ claims on the scene margin
C34_NonNegative(key) == key[1] >= 0 /\ key[2] >= 0

\* C34: no tile key with a negative tile index is dispatched, queued, decoded,
\* delivered, cached or displayed, whatever part of the viewport lies in the
\* negative margin of the scene; for a viewport that lies in the margin
\* altogether, the loading loop and the rendering loop visit tiles from index
\* 0 on or none.
C34_NoNegativeIndex ==
    /\ \A i \in 1..Len(dispatchLog) : C34_NonNegative(dispatchLog[i].key)
    /\ \A key \in loading_tiles \cup KeysOf(cache) \cup tile_items \cup removed :
           C34_NonNegative(key)
    /\ \A w \in Workers : \A i \in 1..Len(tasks[w]) : C34_NonNegative(tasks[w][i])
    /\ \A w \in Decoding : C34_NonNegative(wtask[w])
    /\ \A i \in 1..Len(events) : C34_NonNegative(events[i].key)
    /\ (viewport.right < 0 /\ viewport.bottom < 0) =>
           LET lg == TileRange(viewport, current_level)
               rg == VisibleRange(viewport, current_level)
           IN  /\ lg.start_tile_x = 0 /\ lg.start_tile_y = 0
               /\ rg.start_tile_x = 0 /\ rg.start_tile_y = 0

\* The viewport lies in the margin altogether and tile (0,0,0) is displayed,
\* after tiles were dispatched for a view far out in the margin or for this one.
C34_Witness ==
    /\ viewport = MarginView
    /\ current_level = 0
    /\ <<0, 0, 0>> \in tile_items
    /\ <<1, 1, 0>> \in loading_tiles

\* --------------------------------------------- claims on the scene
\* C35: the scene holds exactly one tile item for every key of tile_items and
\* no tile item for any other key: no key has two items, none is added again
\* while it is displayed, and tile_items tracks exactly what is in the scene.
C35_SceneMatchesTileItems ==
    /\ DOMAIN scene = tile_items
    /\ \A key \in DOMAIN scene : scene[key] = 1

\* Tiles of two levels are displayed, one under the other, after a view
\* change in which the rendering loop passed over a tile already displayed.
C35_Witness ==
    /\ <<0, 0, 0>> \in tile_items
    /\ <<0, 0, 1>> \in tile_items
    /\ DOMAIN scene = tile_items

\* --------------------------------------------- claims on the closed manager
\* C36 as claimed: once close() has returned, the cache and the in-flight set
\* of the manager are empty and stay empty, also when a completion that a
\* worker emitted before it stopped is delivered afterwards.
C36_StaysEmptyAfterClose ==
    (~slide /\ \A w \in Workers : ~running[w]) =>
        /\ mainPc = "idle" => cache = <<>>
        /\ loading_tiles = {}

\* --------------------------------------------- claims on eventual display
\* Every tile of the active level inside the visible tile range is displayed.
C37_AllShown == C28_VisibleKeys \subseteq tile_items

\* C37: once the viewport has stopped changing, with no failing decode and no
\* shutdown, fair workers and fair delivery of the completions, every tile of
\* the active level inside the visible tile range is displayed from some time
\* on for ever.
C37_EventuallyDisplayed ==
    (viewport = EdgeView) ~> [](viewport = EdgeView /\ C37_AllShown)

\* Both tiles of the visible range of the edge view have arrived, after the
\* view was set, and are displayed, while other tiles are still in flight.
C37_Witness ==
    /\ viewport = EdgeView
    /\ C28_VisibleKeys = {<<0, 0, 1>>, <<1, 0, 1>>}
    /\ C37_AllShown
    /\ tilesUpdated = 2
    /\ loading_tiles # {}


\* ------------------------------------------- recency of the footprint tiles
\* Two calls of load_tiles_for_view at level 0 whose footprints share tile
\* column 1 but not column 0: columns 0..4 and columns 1..9.
MidView == [left |-> 2600, top |-> -300, right |-> 2900, bottom |-> 200]
FootprintRects == {NarrowView, MidView}
FootprintRequests == FootprintRects \X ViewLevels

NextFootprint ==
    \/ \E rq \in FootprintRequests : load_tiles_for_view(rq[1], rq[2])
    \/ on_tile_loaded_discard
    \/ on_tile_loaded_put
    \/ close_stop
    \/ close_join
    \/ \E w \in Workers : run_while(w)
    \/ \E w \in Workers : run_pop(w)
    \/ \E w \in Workers : run_loaded(w)

SpecFootprint == Init /\ [][NextFootprint]_vars

\* Position of a cached key in the OrderedDict (the end is the most recent).
C38_Pos(cache_, key) == CHOOSE i \in 1..Len(cache_) : cache_[i].key = key

\* Cached tiles of level L outside the footprint fp.
C38_Outside(cache_, fp, L) == LevelKeys(cache_, L) \ fp

\* The tiles an eviction at level L would take out of the cache tc.
C38_Victims(tc, L) == KeysOf(tc.cache) \ KeysOf(evict_oldest_tile_for_level(tc, L).cache)

C38_Protected(tc, fp, L) ==
    /\ \A k \in KeysOf(tc.cache) \cap fp : \A o \in C38_Outside(tc.cache, fp, L) :
           C38_Pos(tc.cache, o) < C38_Pos(tc.cache, k)
    /\ C38_Outside(tc.cache, fp, L) # {} =>
           /\ C38_Victims(tc, L) # {}
           /\ C38_Victims(tc, L) \cap fp = {}

C38_Step ==
    \A rq \in FootprintRequests :
        load_tiles_for_view(rq[1], rq[2]) =>
            C38_Protected([cache |-> cache', level_counts |-> level_counts',
                           total_evictions |-> total_evictions'],
                          Footprint(rq[1], rq[2]), rq[2])

\* A call on the closed manager returns at once: the state it leaves is the
\* state it found.
C38_ClosedCall ==
    (~slide /\ mainPc = "idle") =>
        \A rq \in FootprintRequests : C38_Protected(TC, Footprint(rq[1], rq[2]), rq[2])

\* C38 as claimed: when load_tiles_for_view(rect, L) returns, every cached
\* tile of the footprint is more recently used than every cached level-L
\* tile outside it, so an eviction at level L would take a tile outside the
\* footprint whenever one is cached.
C38_FootprintProtected == []C38_ClosedCall /\ [][C38_Step]_vars

\* The same for the calls made while the slide is open.
C38_FootprintProtectedWhileOpen == [][slide => C38_Step]_vars


\* --------------------------------------------- claims on the stopped workers
\* Pops a worker can still make once stop() has returned: one when it is past
\* the while test and about to take the lock, none elsewhere.
C39_PopsLeft(w) == IF wpc[w] = "lock" THEN 1 ELSE 0

\* A step of a stopped worker: it pops only from the iteration under way, the
\* pop uses up its one remaining pop, and nothing else touches its queue.
C39_StoppedStep(w) ==
    /\ C39_PopsLeft(w)' <= C39_PopsLeft(w)
    /\ tasks'[w] # tasks[w] =>
           /\ tasks[w] # <<>>
           /\ tasks'[w] = Tail(tasks[w])
           /\ wtask'[w] = Head(tasks[w])
           /\ C39_PopsLeft(w)' < C39_PopsLeft(w)
    /\ wtask'[w] # wtask[w] /\ wtask'[w] # NoTask => tasks'[w] # tasks[w]

\* A completion event is emitted only for the task its worker holds.
C39_EmitStep ==
    events' # events /\ Len(events') > Len(events) =>
        \E w \in Workers :
            /\ wpc[w] = "load"
            /\ events' = Append(events, [pixmap |-> DecodedPixmap(wtask[w]), key |-> wtask[w]])

\* C39 as claimed: after stop() a worker starts decoding at most one further
\* task, the one popped by the loop iteration under way; the tasks left in its
\* queue are never popped, so they are never decoded and produce no completion
\* event.
C39_AtMostOneFurtherTask ==
    [][/\ \A w \in Workers : ~running[w] => C39_StoppedStep(w)
       /\ C39_EmitStep]_vars

\* stop() has returned and close() waits: worker 0 has left its loop with
\* tasks in its queue, worker 1 was past the while test and is about to pop
\* its first task.
C39_Witness ==
    /\ mainPc = "join"
    /\ \A w \in Workers : ~running[w] /\ tasks[w] # <<>>
    /\ wpc[0] = "exited"
    /\ wpc[1] = "lock"
    /\ PoppedBy(1) = 0
    /\ decodes < MaxDecodes

====
